---- MODULE Spec2Model ----
(***************************************************************************)
(* Sales-sheet ingestion pipeline of tokyo-study: the result cache, the    *)
(* source fetcher with fallback endpoints and the row aggregator.          *)
(*                                                                         *)
(* The repository holds three revisions of api/googleSheets.ts:            *)
(*   "single"  - src/src/api/googleSheets.ts lines 1-466:  one sheet, a    *)
(*               primary export endpoint and an alternate /pub endpoint;   *)
(*   "proxy"   - src/src/api/googleSheets.ts lines 468-812: backend proxy  *)
(*               first, then the direct export endpoint;                   *)
(*   "regions" - src/unnamed/part_001 lines 104-504: one sheet per region, *)
(*               each with a primary and an alternate endpoint.            *)
(* The variable version says which revision is loaded; it never changes.   *)
(***************************************************************************)
EXTENDS Integers, Sequences, FiniteSets, TLC

VARIABLES
  version,        \* which revision of googleSheets.ts is loaded
  tz,             \* UTC offset of the running environment, in minutes
  clock,          \* Date.now(), in ms since 00:00 UTC of the reference day
  cachedData,     \* module variable cachedData (Null or a list of records)
  lastFetchTime,  \* module variable lastFetchTime
  pc,             \* per call: the await (or terminal state) it is at
  now,            \* per call: const now = Date.now()
  region,         \* per call: index of the loop over REGION_SHEETS
  response,       \* per call: const response = await fetch(...)
  altResponse,    \* per call: const altResponse = await fetch(altUrl)
  allEmployees,   \* per call: the list accumulated over the regions
  errors,         \* per call: const errors: string[]
  attempts,       \* per call: the endpoints contacted, in order
  ret,            \* per call: the value returned or the error thrown
  parseRun,       \* a run of parseSheetData's row loop: employeeMap, the line read
  csvRun,         \* a run of parseCSVLine: line, i, current, inQuotes, fields
  fnCall,         \* a call of parseDate or safeParseInt: argument and result
  view            \* App: salesData, the selections, and the sortedData rendered

vars == <<version, tz, clock, cachedData, lastFetchTime, pc, now, region,
          response, altResponse, allEmployees, errors, attempts, ret,
          parseRun, csvRun, fnCall, view>>

\* the state of the functions run on their own, which fetchGoogleSheetData
\* and the clock leave alone
pureVars == <<parseRun, csvRun, fnCall, view>>

(***************************************************************************)
(* Bounds of the model.                                                    *)
(***************************************************************************)
MaxTicks == 2      \* the clock advances at most this many times
NumRegions == 2    \* the prefix of REGION_SHEETS that is modelled

Versions == {"single", "proxy", "regions"}
Calls == {"mount", "refresh"}   \* App.loadData on mount and on the refresh button

(***************************************************************************)
(* Time.                                                                   *)
(***************************************************************************)
CACHE_DURATION == 5 * 60 * 1000
DayMs == 24 * 60 * 60 * 1000
TickMs == CACHE_DURATION \div 2
StartClock == 12 * 60 * 60 * 1000   \* the module is loaded at noon UTC
TimeZones == {0, 300}               \* UTC and Asia/Tashkent (UTC+5)

(***************************************************************************)
(* Strings are sequences of one-character strings, so that the code's     *)
(* string operations are computed and not assumed.                         *)
(***************************************************************************)
\* f of the value of x.  TLC evaluates an operator's argument and a LET
\* definition every time it is used; Once evaluates x one time.
Once(x, f(_)) == CHOOSE out \in {f(value) : value \in {x}} : TRUE

Digits == <<"0", "1", "2", "3", "4", "5", "6", "7", "8", "9">>
Uppers == <<"A", "B", "C", "D", "E", "F", "G", "H", "I", "J", "K", "L", "M",
            "N", "O", "P", "Q", "R", "S", "T", "U", "V", "W", "X", "Y", "Z">>
Lowers == <<"a", "b", "c", "d", "e", "f", "g", "h", "i", "j", "k", "l", "m",
            "n", "o", "p", "q", "r", "s", "t", "u", "v", "w", "x", "y", "z">>

IsDigit(ch) == \E i \in 1..10 : Digits[i] = ch
DigitValue(ch) == (CHOOSE i \in 1..10 : Digits[i] = ch) - 1
IsSpace(ch) == ch = " "

\* String.prototype.toLowerCase / toUpperCase, one character
LowerChar(ch) ==
  IF \E i \in 1..26 : Uppers[i] = ch
    THEN Lowers[CHOOSE i \in 1..26 : Uppers[i] = ch]
    ELSE ch
UpperChar(ch) ==
  IF \E i \in 1..26 : Lowers[i] = ch
    THEN Uppers[CHOOSE i \in 1..26 : Lowers[i] = ch]
    ELSE ch
ToLowerCase(s) == [i \in 1..Len(s) |-> LowerChar(s[i])]
ToUpperCase(s) == [i \in 1..Len(s) |-> UpperChar(s[i])]

\* String.prototype.includes
Includes(s, sub) ==
  \E i \in 0..(Len(s) - Len(sub)) : SubSeq(s, i + 1, i + Len(sub)) = sub

\* s.replace(/\s+/g, rep): every maximal run of white space becomes rep
RECURSIVE ReplaceSpaceRuns(_, _)
ReplaceSpaceRuns(s, rep) ==
  IF s = <<>> THEN <<>>
  ELSE IF IsSpace(Head(s))
    THEN IF Len(s) > 1 /\ IsSpace(s[2])
           THEN ReplaceSpaceRuns(Tail(s), rep)
           ELSE rep \o ReplaceSpaceRuns(Tail(s), rep)
    ELSE <<Head(s)>> \o ReplaceSpaceRuns(Tail(s), rep)

\* s.replace(/[^\d-]/g, "")
KeepDigitsAndMinus(s) == SelectSeq(s, LAMBDA ch : IsDigit(ch) \/ ch = "-")

(***************************************************************************)
(* parseInt(s, 10): leading white space, an optional sign, then the        *)
(* longest run of digits; NaN when there is no digit.                      *)
(***************************************************************************)
RECURSIVE SkipSpaces(_)
SkipSpaces(s) ==
  IF s # <<>> /\ IsSpace(Head(s)) THEN SkipSpaces(Tail(s)) ELSE s

RECURSIVE DigitRun(_, _, _)
DigitRun(s, acc, seen) ==
  IF s # <<>> /\ IsDigit(Head(s))
    THEN DigitRun(Tail(s), acc * 10 + DigitValue(Head(s)), TRUE)
    ELSE [nan |-> ~seen, val |-> acc]

ParseInt(s) ==
  Once(SkipSpaces(s), LAMBDA t :
    LET neg == t # <<>> /\ Head(t) = "-"
        u == IF t # <<>> /\ Head(t) \in {"-", "+"} THEN Tail(t) ELSE t
    IN  Once(DigitRun(u, 0, FALSE), LAMBDA r :
          [nan |-> r.nan, val |-> IF neg THEN 0 - r.val ELSE r.val]))

\* num = parseInt(cleaned, 10); isNaN(num) ? 0 : num
ZeroIfNaN(n) == IF n.nan THEN 0 ELSE n.val

\* safeParseInt of the "single" and "regions" revisions
safeParseInt(value) ==
  IF value = <<>> THEN 0
  ELSE Once(KeepDigitsAndMinus(ReplaceSpaceRuns(value, <<>>)), LAMBDA cleaned :
         IF cleaned = <<>> THEN 0 ELSE Once(ParseInt(cleaned), ZeroIfNaN))

\* safeParseInt of the "proxy" revision
safeParseIntProxy(value) ==
  IF value = <<>> THEN 0 ELSE Once(ParseInt(value), ZeroIfNaN)

(***************************************************************************)
(* Dates.  parseDate returns NoDate (null), InvalidDate (a Date object     *)
(* whose time value is NaN) or a valid Date, kept as the number of its UTC *)
(* calendar day (days since 1970-01-01): every date the parser builds is a *)
(* UTC midnight, and only toISOString().split("T")[0] is read from it.     *)
(* Two such strings of four-digit years compare as their day numbers do.   *)
(***************************************************************************)
NoDate == [isNull |-> TRUE, valid |-> FALSE, day |-> 0]
InvalidDate == [isNull |-> FALSE, valid |-> FALSE, day |-> 0]
ValidDate(n) == [isNull |-> FALSE, valid |-> TRUE, day |-> n]

\* day number of the civil date y-m-d; linear in d, as MakeDay is
DaysFromCivil(y, m, d) ==
  LET yy == IF m <= 2 THEN y - 1 ELSE y
      era == yy \div 400
      yoe == yy - era * 400
      mp == (m + 9) % 12
      doy == (153 * mp + 2) \div 5 + d - 1
      doe == yoe * 365 + yoe \div 4 - yoe \div 100 + doy
  IN  era * 146097 + doe - 719468

\* new Date("YYYY-MM-DD"): a month outside 1..12 or a day outside 1..31
\* gives an Invalid Date object
NewDate(y, m, d) ==
  IF m \in 1..12 /\ d \in 1..31 THEN ValidDate(DaysFromCivil(y, m, d))
  ELSE InvalidDate

(***************************************************************************)
(* The patterns of parseDate, on the characters of the cell.               *)
(***************************************************************************)
RECURSIVE DigitRunLen(_)
DigitRunLen(s) ==
  IF s # <<>> /\ IsDigit(Head(s)) THEN 1 + DigitRunLen(Tail(s)) ELSE 0

RECURSIVE NumberOf(_, _)
NumberOf(s, acc) ==
  IF s = <<>> THEN acc ELSE NumberOf(Tail(s), acc * 10 + DigitValue(Head(s)))

Drop(s, n) == SubSeq(s, n + 1, Len(s))

\* dateStr.match(/^\d{4}-\d{2}-\d{2}/)
IsoMatch(s) ==
  /\ Len(s) >= 10
  /\ \A i \in {1, 2, 3, 4, 6, 7, 9, 10} : IsDigit(s[i])
  /\ s[5] = "-" /\ s[8] = "-"

NoMatch == [ok |-> FALSE, part1 |-> 0, part2 |-> 0, year |-> 0]

\* dateStr.match(/^(\d{1,2})SEP(\d{1,2})SEP(\d{4})/): the two groups are
\* whole digit runs of length 1 or 2, the year the next four digits
SepMatch(s, sep) ==
  Once(DigitRunLen(s), LAMBDA l1 :
    IF ~(l1 \in 1..2 /\ Len(s) > l1 /\ s[l1 + 1] = sep) THEN NoMatch
    ELSE Once(Drop(s, l1 + 1), LAMBDA r1 :
      Once(DigitRunLen(r1), LAMBDA l2 :
        IF ~(l2 \in 1..2 /\ Len(r1) > l2 /\ r1[l2 + 1] = sep) THEN NoMatch
        ELSE Once(Drop(r1, l2 + 1), LAMBDA r2 :
          IF DigitRunLen(r2) < 4 THEN NoMatch
          ELSE [ok |-> TRUE, part1 |-> NumberOf(SubSeq(s, 1, l1), 0),
                part2 |-> NumberOf(SubSeq(r1, 1, l2), 0),
                year |-> NumberOf(SubSeq(r2, 1, 4), 0)]))))

\* new Date(dateStr) of a string the patterns did not build.  A date-only
\* ISO string is read as such; a string without any digit is NaN.  Other
\* strings (a time part, a month name with digits) are not among the
\* inputs of this model.
NewDateOfString(s) ==
  IF IsoMatch(s) /\ Len(s) = 10
    THEN NewDate(NumberOf(SubSeq(s, 1, 4), 0), NumberOf(SubSeq(s, 6, 7), 0),
                 NumberOf(SubSeq(s, 9, 10), 0))
    ELSE InvalidDate

\* isNaN(parsed.getTime()) ? null : parsed
NullIfNaN(parsed) == IF parsed.valid THEN parsed ELSE NoDate

\* from the MM/DD/YYYY or DD/MM/YYYY pattern on: the "proxy" revision's
\* parseDate after the ISO pattern, the others' after the dot pattern
SlashOrGeneric(dateStr) ==
  Once(SepMatch(dateStr, "/"), LAMBDA m :
    IF m.ok
      THEN IF m.part1 > 12 THEN NewDate(m.year, m.part2, m.part1)
           ELSE NewDate(m.year, m.part1, m.part2)
      ELSE NullIfNaN(NewDateOfString(dateStr)))

\* parseDate of the "single" and "regions" revisions
parseDate(dateStr) ==
  IF dateStr = <<>> THEN NoDate
  ELSE IF IsoMatch(dateStr) THEN NewDateOfString(dateStr)
  ELSE Once(SepMatch(dateStr, "."), LAMBDA m :
         IF m.ok THEN NewDate(m.year, m.part2, m.part1)
         ELSE SlashOrGeneric(dateStr))

\* parseDate of the "proxy" revision, which has no dot pattern
parseDateProxy(dateStr) ==
  IF dateStr = <<>> THEN NoDate
  ELSE IF IsoMatch(dateStr) THEN NewDateOfString(dateStr)
  ELSE SlashOrGeneric(dateStr)

(***************************************************************************)
(* The five window starts, as UTC day numbers.  today is local midnight    *)
(* (setHours(0,0,0,0)); its toISOString() date is the UTC day of that      *)
(* instant.  nowMs is in ms since 00:00 UTC of day RefDay, off in minutes. *)
(* today.getTime() - k * 24 * 60 * 60 * 1000 is k whole days earlier, so   *)
(* its UTC day is k less.                                                  *)
(***************************************************************************)
RefDay == DaysFromCivil(2024, 1, 31)

LocalMidnightMs(nowMs, off) ==
  LET offMs == off * 60 * 1000
  IN  ((nowMs + offMs) \div DayMs) * DayMs - offMs

WindowStarts(nowMs, off) ==
  LET today == LocalMidnightMs(nowMs, off)
      dayOf(ms) == RefDay + ms \div DayMs
  IN  [todayStr |-> dayOf(today),
       weekAgoStr |-> dayOf(today) - 7,
       monthAgoStr |-> dayOf(today) - 30,
       sixMonthsAgoStr |-> dayOf(today) - 180,
       yearAgoStr |-> dayOf(today) - 365]

(***************************************************************************)
(* Sheet text.  A body is the sequence of its lines after                  *)
(* csvText.trim().split("\n"); the empty body <<>> is the empty text.      *)
(* A line is blank, a title line (text that names no column), a header     *)
(* line, or a data row.  A data row is kept as the fields parseCSVLine     *)
(* yields on it.  A header line is kept as the indices findColumnIndex     *)
(* resolves on it for the logical fields of the loaded revision (-1:       *)
(* unresolved); any other line taken as header resolves nothing.           *)
(***************************************************************************)
Unresolved ==
  [nameIdx |-> -1, branchIdx |-> -1, dateIdx |-> -1, contractIdx |-> -1,
   invoiceIdx |-> -1, invoice3000Idx |-> -1, employeeNameIndices |-> <<>>]

BlankLine == [t |-> "blank", fields |-> <<>>, idx |-> Unresolved]
TitleLine == [t |-> "title", fields |-> <<>>, idx |-> Unresolved]
HeaderLine(idx) == [t |-> "header", fields |-> <<>>, idx |-> idx]
Row(fields) == [t |-> "row", fields |-> fields, idx |-> Unresolved]

Lines(csvText) == IF csvText = <<>> THEN <<BlankLine>> ELSE csvText

\* the indices resolved on the line taken as header
HeaderIdx(line) == line.idx

\* parseCSVLine(line) of a data line; a title or header line read as a data
\* row has no cell this model's rows are made of
FieldsOf(line) == line.fields

\* fields[idx]?.trim() || "" : "" when the index is -1 or past the row's end
Field(fields, idx) ==
  IF idx >= 0 /\ idx < Len(fields) THEN fields[idx + 1] ELSE <<>>

\* !line.trim()
IsBlank(line) == line.t = "blank"

\* line.toUpperCase().includes("TOTAL")
TOTAL == <<"T", "O", "T", "A", "L">>
LineHasTotal(line) ==
  \E cell \in {ToUpperCase(FieldsOf(line)[i]) : i \in 1..Len(FieldsOf(line))} :
    Includes(cell, TOTAL)

\* the largest of a set of indices (Math.max)
MaxOf(S) == CHOOSE x \in S : \A y \in S : y <= x

(***************************************************************************)
(* The employee map: a sequence of entries in insertion order.             *)
(***************************************************************************)
HasKey(employeeMap, key) == \E i \in 1..Len(employeeMap) : employeeMap[i].key = key
IndexOfKey(employeeMap, key) == CHOOSE i \in 1..Len(employeeMap) : employeeMap[i].key = key

\* `${name.toLowerCase()}|${branch}`
KeyOf(name, branch) == ToLowerCase(name) \o <<"|">> \o branch

\* `${name}-${branch}`.replace(/\s+/g, "-").toLowerCase()
IdOf(name, branch) == ToLowerCase(ReplaceSpaceRuns(name \o <<"-">> \o branch, <<"-">>))

\* the record a first row creates; the "proxy" revision's record has no
\* amount6mln, invoice, invoice3000 (they stay 0 here), the "regions"
\* revision's no invoice3000
NewEmployee(name, branch) ==
  [id |-> IdOf(name, branch), name |-> name, branch |-> branch,
   today |-> 0, week |-> 0, month |-> 0, sixMonths |-> 0, year |-> 0,
   amount6mln |-> 0, invoice |-> 0, invoice3000 |-> 0]

\* window totals whose year window is no longer than the week window
AggregateYearShort(employee, day, saleAmount, W, amount6mln, invoice, invoice3000) ==
  [employee EXCEPT
     !.today = IF day = W.todayStr THEN @ + saleAmount ELSE @,
     !.week = IF day >= W.weekAgoStr THEN @ + saleAmount ELSE @,
     !.month = IF day >= W.monthAgoStr THEN @ + saleAmount ELSE @,
     !.sixMonths = IF day >= W.sixMonthsAgoStr THEN @ + saleAmount ELSE @,
     !.year = IF day >= W.weekAgoStr THEN @ + saleAmount ELSE @,
     !.amount6mln = @ + amount6mln,
     !.invoice = @ + invoice,
     !.invoice3000 = @ + invoice3000]

\* window totals whose today window takes every day from its start on
AggregateTodayOnwards(employee, day, saleAmount, W, amount6mln, invoice, invoice3000) ==
  [employee EXCEPT
     !.today = IF day >= W.todayStr THEN @ + saleAmount ELSE @,
     !.week = IF day >= W.weekAgoStr THEN @ + saleAmount ELSE @,
     !.month = IF day >= W.monthAgoStr THEN @ + saleAmount ELSE @,
     !.sixMonths = IF day >= W.sixMonthsAgoStr THEN @ + saleAmount ELSE @,
     !.year = IF day >= W.yearAgoStr THEN @ + saleAmount ELSE @,
     !.amount6mln = @ + amount6mln,
     !.invoice = @ + invoice,
     !.invoice3000 = @ + invoice3000]

\* the window totals and the lifetime sums of one accepted row
Aggregate(employee, day, saleAmount, W, amount6mln, invoice, invoice3000) ==
  [employee EXCEPT
     !.today = IF day = W.todayStr THEN @ + saleAmount ELSE @,
     !.week = IF day >= W.weekAgoStr THEN @ + saleAmount ELSE @,
     !.month = IF day >= W.monthAgoStr THEN @ + saleAmount ELSE @,
     !.sixMonths = IF day >= W.sixMonthsAgoStr THEN @ + saleAmount ELSE @,
     !.year = IF day >= W.yearAgoStr THEN @ + saleAmount ELSE @,
     !.amount6mln = @ + amount6mln,
     !.invoice = @ + invoice,
     !.invoice3000 = @ + invoice3000]

\* the tail of the loop body, from `const key` on: look up or create the
\* record, then parsedDate.toISOString(), which throws a RangeError on an
\* Invalid Date, then the window totals
Accumulate(employeeMap, name, branch, parsedDate, saleAmount, W, amount6mln, invoice, invoice3000) ==
  Once(KeyOf(name, branch), LAMBDA key :
    Once(IF HasKey(employeeMap, key) THEN employeeMap
         ELSE Append(employeeMap, [key |-> key, val |-> NewEmployee(name, branch)]),
         LAMBDA created :
      IF ~parsedDate.valid
        THEN [threw |-> TRUE, map |-> created]
        ELSE [threw |-> FALSE,
              map |-> [created EXCEPT ![IndexOfKey(created, key)].val =
                         Aggregate(@, parsedDate.day, saleAmount, W,
                                   amount6mln, invoice, invoice3000)]]))

\* continue
Skip(employeeMap) == [threw |-> FALSE, map |-> employeeMap]

\* "Skip invalid entries"
InvalidName(name) ==
  name = <<>> \/ name = <<"0">> \/ Len(name) < 2 \/ ToLowerCase(name) = ToLowerCase(TOTAL)
InvalidNameProxy(name) ==
  name = <<>> \/ name = <<"0">> \/ Len(name) < 2

\* fields[idx]?.trim() || "0"
OrZero(cell) == IF cell = <<>> THEN <<"0">> ELSE cell

(***************************************************************************)
(* One iteration of the row loop of parseSheetData, per revision.  idx is  *)
(* the header's resolution, W the window starts, employeeMap the map so    *)
(* far.  The result is the map after the row, or threw when the iteration  *)
(* raises.                                                                 *)
(***************************************************************************)
\* employeeNameIndices[branch], -1 when undefined
RegionNameIdx(indices, branch) ==
  IF \E i \in 1..Len(indices) : indices[i].region = branch
    THEN indices[CHOOSE i \in 1..Len(indices) : indices[i].region = branch].idx
    ELSE -1

\* the first region column holding a value other than "0" and longer than 2
RECURSIVE AnyRegionName(_, _)
AnyRegionName(indices, fields) ==
  IF indices = <<>> THEN <<>>
  ELSE LET potentialName == Field(fields, Head(indices).idx)
       IN  IF potentialName # <<>> /\ potentialName # <<"0">> /\ Len(potentialName) > 2
             THEN potentialName
             ELSE AnyRegionName(Tail(indices), fields)

\* "single": filialIdx is idx.branchIdx, amount6mlnIdx is idx.contractIdx,
\* genericNameIdx is idx.nameIdx.  The cells the iteration reads:
CellsSingle(fields, idx) ==
  LET branch == Field(fields, idx.branchIdx)
      regionIdx == RegionNameIdx(idx.employeeNameIndices, branch)
      name1 == IF regionIdx # -1 THEN Field(fields, regionIdx) ELSE <<>>
      name2 == IF name1 = <<>> /\ idx.nameIdx # -1
                 THEN Field(fields, idx.nameIdx) ELSE name1
      dateStr == Field(fields, idx.dateIdx)
  IN  [branch |-> branch,
       name |-> IF name2 = <<>>
                  THEN AnyRegionName(idx.employeeNameIndices, fields) ELSE name2,
       amount6mln |-> safeParseInt(OrZero(Field(fields, idx.contractIdx))),
       invoice |-> safeParseInt(OrZero(Field(fields, idx.invoiceIdx))),
       invoice3000 |-> safeParseInt(OrZero(Field(fields, idx.invoice3000Idx))),
       parsedDate |-> IF dateStr # <<>> THEN parseDate(dateStr) ELSE NoDate]

\* the "single" iteration without the `saleAmount <= 0` skip
RowSingleKeepsNoSale(line, idx, W, employeeMap) ==
  IF IsBlank(line) \/ LineHasTotal(line) THEN Skip(employeeMap)
  ELSE Once(CellsSingle(FieldsOf(line), idx), LAMBDA row :
    LET amount6mlnValue == IF row.amount6mln > 0 THEN 6000000 * row.amount6mln ELSE 0
        saleAmount == amount6mlnValue + row.invoice
    IN  IF row.branch = <<>> THEN Skip(employeeMap)
        ELSE IF InvalidName(row.name) THEN Skip(employeeMap)
        ELSE IF row.parsedDate.isNull THEN Skip(employeeMap)
        ELSE Accumulate(employeeMap, row.name, row.branch, row.parsedDate, saleAmount,
                        W, row.amount6mln, row.invoice, row.invoice3000))

RowSingle(line, idx, W, employeeMap) ==
  IF IsBlank(line) \/ LineHasTotal(line) THEN Skip(employeeMap)
  ELSE Once(CellsSingle(FieldsOf(line), idx), LAMBDA row :
    LET amount6mlnValue == IF row.amount6mln > 0 THEN 6000000 * row.amount6mln ELSE 0
        saleAmount == amount6mlnValue + row.invoice
    IN  IF row.branch = <<>> THEN Skip(employeeMap)
        ELSE IF InvalidName(row.name) THEN Skip(employeeMap)
        ELSE IF saleAmount <= 0 THEN Skip(employeeMap)
        ELSE IF row.parsedDate.isNull THEN Skip(employeeMap)
        ELSE Accumulate(employeeMap, row.name, row.branch, row.parsedDate, saleAmount,
                        W, row.amount6mln, row.invoice, row.invoice3000))

\* "proxy": of its six metric columns the sheet of this model has the
\* contract and the $3000 column; fields[-1] of the others parses to 0
Unknown == <<"U", "n", "k", "n", "o", "w", "n">>
CellsProxy(fields, idx) ==
  LET cell1 == Field(fields, idx.nameIdx)
      cell2 == Field(fields, idx.branchIdx)
  IN  [name |-> IF cell1 = <<>> THEN Unknown ELSE cell1,
       branch |-> IF cell2 = <<>> THEN Unknown ELSE cell2,
       contracts |-> safeParseIntProxy(Field(fields, idx.contractIdx)),
       invoice3000 |-> safeParseIntProxy(Field(fields, idx.invoice3000Idx)),
       parsedDate |-> parseDateProxy(Field(fields, idx.dateIdx))]

RowProxy(line, idx, W, employeeMap) ==
  IF IsBlank(line) THEN Skip(employeeMap)
  ELSE IF Len(FieldsOf(line)) < MaxOf({idx.nameIdx, idx.branchIdx, idx.dateIdx}) + 1
    THEN Skip(employeeMap)
  ELSE Once(CellsProxy(FieldsOf(line), idx), LAMBDA row :
    LET saleAmount == row.contracts + 0 + row.invoice3000 + 0 + 0 + 0
    IN  IF InvalidNameProxy(row.name) THEN Skip(employeeMap)
        ELSE IF saleAmount <= 0 THEN Skip(employeeMap)
        ELSE IF row.parsedDate.isNull THEN Skip(employeeMap)
        ELSE Accumulate(employeeMap, row.name, row.branch, row.parsedDate, saleAmount,
                        W, 0, 0, 0))

\* "regions": sharnomaTuriIdx is idx.contractIdx; the branch is the region
CellsRegions(fields, idx) ==
  [name |-> Field(fields, idx.nameIdx),
   sharnomaTuriValue |-> safeParseInt(OrZero(Field(fields, idx.contractIdx))),
   invoice |-> safeParseInt(OrZero(Field(fields, idx.invoiceIdx))),
   parsedDate |-> parseDate(Field(fields, idx.dateIdx))]

RowRegions(line, idx, W, employeeMap, regionName) ==
  IF IsBlank(line) \/ LineHasTotal(line) THEN Skip(employeeMap)
  ELSE IF idx.nameIdx = -1 \/ Len(FieldsOf(line)) < MaxOf({idx.nameIdx, idx.dateIdx}) + 1
    THEN Skip(employeeMap)
  ELSE Once(CellsRegions(FieldsOf(line), idx), LAMBDA row :
    LET amount6mln == IF row.sharnomaTuriValue >= 6000000 THEN 1 ELSE 0
        saleAmount == row.sharnomaTuriValue + row.invoice
    IN  IF InvalidName(row.name) THEN Skip(employeeMap)
        ELSE IF saleAmount <= 0 THEN Skip(employeeMap)
        ELSE IF row.parsedDate.isNull THEN Skip(employeeMap)
        ELSE Accumulate(employeeMap, row.name, regionName, row.parsedDate, saleAmount,
                        W, amount6mln, row.invoice, 0))

RowStep(v, line, idx, W, employeeMap, regionName) ==
  CASE v = "single" -> RowSingle(line, idx, W, employeeMap)
    [] v = "proxy" -> RowProxy(line, idx, W, employeeMap)
    [] v = "regions" -> RowRegions(line, idx, W, employeeMap, regionName)

\* the row loop, from line i (1-based) on; r is the outcome of iteration i
RECURSIVE RowLoop(_, _, _, _, _, _, _)
RowLoop(v, lines, i, idx, W, employeeMap, regionName) ==
  IF i > Len(lines) THEN [threw |-> FALSE, map |-> employeeMap]
  ELSE Once(RowStep(v, lines[i], idx, W, employeeMap, regionName), LAMBDA r :
         IF r.threw THEN r
         ELSE RowLoop(v, lines, i + 1, idx, W, r.map, regionName))

\* Array.from(employeeMap.values())
Values(employeeMap) == [i \in 1..Len(employeeMap) |-> employeeMap[i].val]

(***************************************************************************)
(* parseSheetData: [threw, message, list].  nowMs is the clock when the    *)
(* function runs (new Date()), off the UTC offset of the environment.      *)
(***************************************************************************)
Returned(list) == [threw |-> FALSE, message |-> "", list |-> list]
Thrown(message) == [threw |-> TRUE, message |-> message, list |-> <<>>]

\* the row loop from line first on, with the line before it as header
Rows(v, lines, first, nowMs, off, regionName) ==
  Once(WindowStarts(nowMs, off), LAMBDA W :
    Once(HeaderIdx(lines[first - 1]), LAMBDA idx :
      RowLoop(v, lines, first, idx, W, <<>>, regionName)))

parseSheetDataSingle(csvText, nowMs, off) ==
  Once(Lines(csvText), LAMBDA lines :
    IF Len(lines) < 2 THEN Returned(<<>>)
    ELSE Once(Rows("single", lines, 2, nowMs, off, <<>>), LAMBDA r :
           IF r.threw THEN Thrown("Invalid time value")
           ELSE Returned(Values(r.map))))

parseSheetDataProxy(csvText, nowMs, off) ==
  Once(Lines(csvText), LAMBDA lines :
    IF Len(lines) < 2 THEN Thrown("Sheet data is empty or invalid")
    ELSE Once(Rows("proxy", lines, 2, nowMs, off, <<>>), LAMBDA r :
           IF r.threw THEN Thrown("Invalid time value")
           ELSE IF Len(r.map) = 0
             THEN Thrown("No valid employee data found in sheet")
           ELSE Returned(Values(r.map))))

parseSheetDataRegions(csvText, regionName, nowMs, off) ==
  Once(Lines(csvText), LAMBDA lines :
    IF Len(lines) < 3 THEN Returned(<<>>)
    ELSE Once(Rows("regions", lines, 3, nowMs, off, regionName), LAMBDA r :
           IF r.threw THEN Thrown("Invalid time value")
           ELSE Returned(Values(r.map))))

(***************************************************************************)
(* The sheets the remote service may serve.  Sheet of the "single"         *)
(* revision: columns No, To'lov sanasi, Filial, 6 mln, Invoice,            *)
(* Xodim F. I. Sh Toshkent, Xodim F. I. Sh Samarqand ("Xodim" also         *)
(* resolves the generic name column to the first of the two).  Sheet of    *)
(* the "proxy" revision: Timestamp, FISh, Filial, Shartnoma, $3000.  Sheet *)
(* of a region: a title line, then Shartnoma sanasi, Menejerining ismi,    *)
(* Sharnoma turi, Invoice $.  The module is loaded on 2024-01-31.          *)
(***************************************************************************)
Toshkent == <<"T", "o", "s", "h", "k", "e", "n", "t">>
Samarqand == <<"S", "a", "m", "a", "r", "q", "a", "n", "d">>

HeaderSingle ==
  HeaderLine([nameIdx |-> 5, branchIdx |-> 2, dateIdx |-> 1, contractIdx |-> 3,
              invoiceIdx |-> 4, invoice3000Idx |-> -1,
              employeeNameIndices |-> << [region |-> Toshkent, idx |-> 5],
                                         [region |-> Samarqand, idx |-> 6] >>])
HeaderProxy ==
  HeaderLine([nameIdx |-> 1, branchIdx |-> 2, dateIdx |-> 0, contractIdx |-> 3,
              invoiceIdx |-> -1, invoice3000Idx |-> 4, employeeNameIndices |-> <<>>])
HeaderRegions ==
  HeaderLine([nameIdx |-> 1, branchIdx |-> -1, dateIdx |-> 0, contractIdx |-> 2,
              invoiceIdx |-> 3, invoice3000Idx |-> -1, employeeNameIndices |-> <<>>])

GoodSingle == Row(<<<<"1">>, <<"2", "0", "2", "4", "-", "0", "1", "-", "3", "1">>, <<"T", "o", "s", "h", "k", "e", "n", "t">>, <<"1">>, <<"5", "0", "0">>, <<"A", "l", "i", " ", "V", "a", "l", "i", "y", "e", "v">>, <<>>>>)
OtherSingle == Row(<<<<"2">>, <<"3", "0", ".", "0", "1", ".", "2", "0", "2", "4">>, <<"S", "a", "m", "a", "r", "q", "a", "n", "d">>, <<>>, <<"1", " ", "2", "0", "0">>, <<>>, <<"V", "a", "l", "i", " ", "A", "l", "i", "y", "e", "v">>>>)
TotalSingle == Row(<<<<>>, <<>>, <<>>, <<"1">>, <<"1", "7", "0", "0">>, <<"T", "O", "T", "A", "L">>, <<>>>>)
ZeroSingle == Row(<<<<"3">>, <<"2", "0", "2", "4", "-", "0", "1", "-", "3", "1">>, <<"T", "o", "s", "h", "k", "e", "n", "t">>, <<"0">>, <<"0">>, <<"A", "l", "i", " ", "V", "a", "l", "i", "y", "e", "v">>, <<>>>>)
BadDateSingle == Row(<<<<"4">>, <<"2", "0", "2", "4", "-", "1", "3", "-", "4", "5">>, <<"T", "o", "s", "h", "k", "e", "n", "t">>, <<"1">>, <<"0">>, <<"A", "l", "i", " ", "V", "a", "l", "i", "y", "e", "v">>, <<>>>>)

GoodProxy == Row(<<<<"2", "0", "2", "4", "-", "0", "1", "-", "3", "1">>, <<"A", "l", "i", " ", "V", "a", "l", "i", "y", "e", "v">>, <<"T", "o", "s", "h", "k", "e", "n", "t">>, <<"2">>, <<"3", "0", "0", "0">>>>)
OtherProxy == Row(<<<<"0", "1", "/", "3", "0", "/", "2", "0", "2", "4">>, <<"V", "a", "l", "i", " ", "A", "l", "i", "y", "e", "v">>, <<"S", "a", "m", "a", "r", "q", "a", "n", "d">>, <<"1">>, <<>>>>)
ZeroProxy == Row(<<<<"2", "0", "2", "4", "-", "0", "1", "-", "3", "1">>, <<"A", "l", "i", " ", "V", "a", "l", "i", "y", "e", "v">>, <<"T", "o", "s", "h", "k", "e", "n", "t">>, <<"0">>, <<>>>>)
BadDateProxy == Row(<<<<"2", "0", "2", "4", "-", "1", "3", "-", "4", "5">>, <<"A", "l", "i", " ", "V", "a", "l", "i", "y", "e", "v">>, <<"T", "o", "s", "h", "k", "e", "n", "t">>, <<"1">>, <<>>>>)

GoodRegions == Row(<<<<"2", "0", "2", "4", "-", "0", "1", "-", "3", "1">>, <<"A", "l", "i", " ", "V", "a", "l", "i", "y", "e", "v">>, <<"6", "0", "0", "0", "0", "0", "0">>, <<"5", "0", "0">>>>)
OtherRegions == Row(<<<<"3", "0", ".", "0", "1", ".", "2", "0", "2", "4">>, <<"V", "a", "l", "i", " ", "A", "l", "i", "y", "e", "v">>, <<>>, <<"1", " ", "2", "0", "0">>>>)
TotalRegions == Row(<<<<>>, <<"T", "o", "t", "a", "l">>, <<"6", "0", "0", "0", "0", "0", "0">>, <<"1", "7", "0", "0">>>>)
ZeroRegions == Row(<<<<"2", "0", "2", "4", "-", "0", "1", "-", "3", "1">>, <<"A", "l", "i", " ", "V", "a", "l", "i", "y", "e", "v">>, <<"0">>, <<"0">>>>)
BadDateRegions == Row(<<<<"2", "0", "2", "4", "-", "1", "3", "-", "4", "5">>, <<"A", "l", "i", " ", "V", "a", "l", "i", "y", "e", "v">>, <<"6", "0", "0", "0", "0", "0", "0">>, <<"0">>>>)

EmptyText == <<>>

\* per revision: the empty text, a sheet without data rows, one whose rows
\* are all rejected, two sheets with accepted rows, and one with a date
\* cell that matches the ISO pattern and is no calendar date
Bodies(v) ==
  CASE v = "single" ->
         { EmptyText, <<HeaderSingle>>, <<HeaderSingle, TotalSingle, ZeroSingle>>,
           <<HeaderSingle, GoodSingle>>,
           <<HeaderSingle, GoodSingle, BlankLine, OtherSingle, TotalSingle>>,
           <<HeaderSingle, GoodSingle, BadDateSingle>> }
    [] v = "proxy" ->
         { EmptyText, <<HeaderProxy>>, <<HeaderProxy, ZeroProxy>>,
           <<HeaderProxy, GoodProxy>>,
           <<HeaderProxy, GoodProxy, BlankLine, OtherProxy>>,
           <<HeaderProxy, GoodProxy, BadDateProxy>> }
    [] v = "regions" ->
         { EmptyText, <<TitleLine, HeaderRegions>>,
           <<TitleLine, HeaderRegions, TotalRegions, ZeroRegions>>,
           <<TitleLine, HeaderRegions, GoodRegions>>,
           <<TitleLine, HeaderRegions, GoodRegions, BlankLine, OtherRegions, TotalRegions>>,
           <<TitleLine, HeaderRegions, GoodRegions, BadDateRegions>> }

(***************************************************************************)
(* The state machine.  A call of fetchGoogleSheetData runs to its next     *)
(* await without interruption; every action below is the resolution of one *)
(* await together with the synchronous code up to the next await, the      *)
(* return or the throw.                                                    *)
(***************************************************************************)
\* REGION_SHEETS, by name
REGION_SHEETS == << <<"A", "n", "d", "i", "j", "o", "n">>,
                    <<"S", "a", "m", "a", "r", "q", "a", "n", "d">>,
                    <<"N", "a", "m", "a", "n", "g", "a", "n">>,
                    <<"F", "a", "r", "g", "'", "o", "n", "a">>,
                    <<"Q", "a", "r", "s", "h", "i">> >>

\* cachedData: null, or a list
NullData == [set |-> FALSE, list |-> <<>>]
Data(list) == [set |-> TRUE, list |-> list]

\* what a call has given its caller: nothing yet, a list, or an Error
NoResult == [kind |-> "none", list |-> <<>>, error |-> "", reasons |-> <<>>]
Value(list) == [kind |-> "value", list |-> list, error |-> "", reasons |-> <<>>]
Failure(error, reasons) ==
  [kind |-> "error", list |-> <<>>, error |-> error, reasons |-> reasons]

\* one failure reason: the region (0: the single sheet), the message and
\* the fetchError or exception text in it
Reason(r, message, detail) == [region |-> r, message |-> message, detail |-> detail]

\* what fetch(url) settles with: a rejection, or a Response; readable says
\* whether text() of the Response will resolve (with body) or reject
NoResponse == [raised |-> FALSE, ok |-> FALSE, status |-> 0, readable |-> FALSE, body |-> <<>>]
Rejected == [raised |-> TRUE, ok |-> FALSE, status |-> 0, readable |-> FALSE, body |-> <<>>]
NotFound == [raised |-> FALSE, ok |-> FALSE, status |-> 404, readable |-> TRUE, body |-> <<>>]
Unreadable == [raised |-> FALSE, ok |-> TRUE, status |-> 200, readable |-> FALSE, body |-> <<>>]
Ok(body) == [raised |-> FALSE, ok |-> TRUE, status |-> 200, readable |-> TRUE, body |-> body]
FetchOutcomes(v) == {Rejected, NotFound, Unreadable} \cup {Ok(b) : b \in Bodies(v)}

\* the answers of the service when two calls overlap: any of FetchOutcomes
\* for the one sheet, and for a region sheet a 404 or the sheet with a row
UsualOutcomes(v) ==
  IF v = "regions"
    THEN {NotFound, Ok(<<TitleLine, HeaderRegions, GoodRegions>>)}
    ELSE FetchOutcomes(v)

\* the values Date.now() takes, and the results of parseSheetData for the
\* sheets, clock values and time zones of the model, computed once
\* half a tick before the local midnight that follows the start of the clock
BeforeMidnight(off) == LocalMidnightMs(StartClock, off) + DayMs - TickMs \div 2
ClockValues ==
  {StartClock + k * TickMs : k \in 0..MaxTicks}
    \cup {BeforeMidnight(off) + k * TickMs : off \in TimeZones, k \in 0..1}
ParsedSingle ==
  [csvText \in Bodies("single"), t \in ClockValues, off \in TimeZones |->
     parseSheetDataSingle(csvText, t, off)]
ParsedProxy ==
  [csvText \in Bodies("proxy"), t \in ClockValues, off \in TimeZones |->
     parseSheetDataProxy(csvText, t, off)]
ParsedRegions ==
  [csvText \in Bodies("regions"), r \in 1..NumRegions, t \in ClockValues, off \in TimeZones |->
     parseSheetDataRegions(csvText, REGION_SHEETS[r], t, off)]

\* no function is run on its own
NoParseRun == [rows |-> 0, line |-> BlankLine, regionName |-> <<>>, threw |-> FALSE,
               idx |-> Unresolved, before |-> <<>>, employeeMap |-> <<>>]
NoCsvRun == [line |-> <<>>, i |-> 0, current |-> <<>>, inQuotes |-> FALSE,
             fields |-> <<>>, returned |-> FALSE]
NoFnCall == [fn |-> "", arg |-> <<>>, date |-> NoDate, int |-> 0]
AllBranches == <<"*">>
NoView == [salesData |-> <<>>, selectedTimeframe |-> "month",
           selectedBranch |-> AllBranches, sortedData |-> <<>>, loading |-> TRUE]

Init ==
  /\ version \in Versions
  /\ tz \in TimeZones
  /\ clock = StartClock
  /\ cachedData = NullData
  /\ lastFetchTime = 0
  /\ pc = [c \in Calls |-> "idle"]
  /\ now = [c \in Calls |-> 0]
  /\ region = [c \in Calls |-> 0]
  /\ response = [c \in Calls |-> NoResponse]
  /\ altResponse = [c \in Calls |-> NoResponse]
  /\ allEmployees = [c \in Calls |-> <<>>]
  /\ errors = [c \in Calls |-> <<>>]
  /\ attempts = [c \in Calls |-> <<>>]
  /\ ret = [c \in Calls |-> NoResult]
  /\ parseRun = NoParseRun
  /\ csvRun = NoCsvRun
  /\ fnCall = NoFnCall
  /\ view = NoView

\* time passes
Tick ==
  /\ clock < StartClock + MaxTicks * TickMs
  /\ clock' = clock + TickMs
  /\ UNCHANGED <<version, tz, cachedData, lastFetchTime, pc, now, region,
                 response, altResponse, allEmployees, errors, attempts, ret>>
  /\ UNCHANGED pureVars

\* a cache check with the comparison turned round
CacheValidInverted(nowMs) == cachedData.set /\ nowMs - lastFetchTime >= CACHE_DURATION

\* a cache check that never lets the entry expire
CacheValidAnyAge(nowMs) == cachedData.set

\* cachedData && now - lastFetchTime < CACHE_DURATION
CacheValid(nowMs) == cachedData.set /\ nowMs - lastFetchTime < CACHE_DURATION

\* a store that keeps the list of an entry that is there and writes only
\* the timestamp
StoreTimestampOnly(c, list) ==
  /\ cachedData' = IF cachedData.set THEN cachedData ELSE Data(list)
  /\ lastFetchTime' = now[c]

\* cachedData = ...; lastFetchTime = now;
Store(c, list) ==
  /\ cachedData' = Data(list)
  /\ lastFetchTime' = now[c]

\* the locals response and altResponse, and the record of the endpoints
\* the call has contacted
Locals(c, resp, alt, log) ==
  /\ response' = [response EXCEPT ![c] = resp]
  /\ altResponse' = [altResponse EXCEPT ![c] = alt]
  /\ attempts' = [attempts EXCEPT ![c] = log]

\* fetch(url) is called for the endpoint
Contact(log, r, endpoint) == Append(log, [region |-> r, endpoint |-> endpoint])

\* the call suspends at the await p
Suspend(c, p, resp, alt, log) ==
  /\ pc' = [pc EXCEPT ![c] = p]
  /\ Locals(c, resp, alt, log)
  /\ UNCHANGED <<cachedData, lastFetchTime, ret, region, allEmployees, errors>>

\* the call stores list and returns it
Return(c, list, log) ==
  /\ pc' = [pc EXCEPT ![c] = "done"]
  /\ ret' = [ret EXCEPT ![c] = Value(list)]
  /\ Store(c, list)
  /\ Locals(c, NoResponse, NoResponse, log)

\* a throw that drops the cache entry
ThrowClearing(c, error, reasons, log) ==
  /\ pc' = [pc EXCEPT ![c] = "failed"]
  /\ ret' = [ret EXCEPT ![c] = Failure(error, reasons)]
  /\ cachedData' = NullData
  /\ lastFetchTime' = 0
  /\ Locals(c, NoResponse, NoResponse, log)

\* the call throws
Throw(c, error, reasons, log) ==
  /\ pc' = [pc EXCEPT ![c] = "failed"]
  /\ ret' = [ret EXCEPT ![c] = Failure(error, reasons)]
  /\ UNCHANGED <<cachedData, lastFetchTime>>
  /\ Locals(c, NoResponse, NoResponse, log)

\* fetchError || 'Unknown error'
OrUnknown(fetchError) == IF fetchError = "" THEN "Unknown error" ELSE fetchError

\* "single", from `if (csvText && csvText.trim().length > 0)` on; a null
\* csvText is the empty text here, both take the else branch
FinishSingle(c, csvText, fetchError, log) ==
  /\ UNCHANGED <<region, allEmployees, errors>>
  /\ IF csvText # <<>>
       THEN \E r \in {ParsedSingle[csvText, clock, tz]} :
              IF r.threw
                THEN Throw(c, "Error fetching data", <<Reason(0, r.message, "")>>, log)
                ELSE Return(c, r.list, log)
       ELSE Throw(c, "Error fetching data",
                  <<Reason(0, "No CSV data received", OrUnknown(fetchError))>>, log)

\* "proxy", the outer catch: throw new Error(`Unable to fetch ...`)
FailProxy(c, message, log) ==
  /\ UNCHANGED <<region, allEmployees, errors>>
  /\ Throw(c, "Unable to fetch Google Sheets data", <<Reason(0, message, "")>>, log)

\* "proxy": the backend proxy did not deliver, the direct endpoint is next
DirectProxy(c, log) ==
  Suspend(c, "altFetch", NoResponse, NoResponse, Contact(log, 0, "alternate"))

\* an end of the iteration that gives the run up at the first region
\* without data
FinishRegionAbort(c, csvText, fetchError, log) ==
  \E parsed \in {IF csvText = <<>> THEN Returned(<<>>)
                  ELSE ParsedRegions[csvText, region[c], clock, tz]} :
  LET r == region[c]
      all == IF csvText # <<>> /\ ~parsed.threw
               THEN allEmployees[c] \o parsed.list ELSE allEmployees[c]
      errs == IF csvText = <<>>
                THEN Append(errors[c], Reason(r, "No CSV data received", OrUnknown(fetchError)))
              ELSE IF parsed.threw
                THEN Append(errors[c], Reason(r, "Error fetching data", parsed.message))
              ELSE errors[c]
  IN  /\ allEmployees' = [allEmployees EXCEPT ![c] = all]
      /\ errors' = [errors EXCEPT ![c] = errs]
      /\ IF r < NumRegions /\ errs = errors[c]
           THEN /\ region' = [region EXCEPT ![c] = r + 1]
                /\ pc' = [pc EXCEPT ![c] = "fetch"]
                /\ Locals(c, NoResponse, NoResponse, Contact(log, r + 1, "primary"))
                /\ UNCHANGED <<cachedData, lastFetchTime, ret>>
           ELSE /\ UNCHANGED region
                /\ IF all = <<>> \/ errs # errors[c]
                     THEN Throw(c, "No data could be fetched from any region sheets", errs, log)
                     ELSE Return(c, all, log)

\* "regions", from `if (csvText && csvText.trim().length > 0)` to the end of
\* the iteration, and after the last region to the end of the function
FinishRegion(c, csvText, fetchError, log) ==
  \E parsed \in {IF csvText = <<>> THEN Returned(<<>>)
                  ELSE ParsedRegions[csvText, region[c], clock, tz]} :
  LET r == region[c]
      all == IF csvText # <<>> /\ ~parsed.threw
               THEN allEmployees[c] \o parsed.list ELSE allEmployees[c]
      errs == IF csvText = <<>>
                THEN Append(errors[c], Reason(r, "No CSV data received", OrUnknown(fetchError)))
              ELSE IF parsed.threw
                THEN Append(errors[c], Reason(r, "Error fetching data", parsed.message))
              ELSE errors[c]
  IN  /\ allEmployees' = [allEmployees EXCEPT ![c] = all]
      /\ errors' = [errors EXCEPT ![c] = errs]
      /\ IF r < NumRegions
           THEN /\ region' = [region EXCEPT ![c] = r + 1]
                /\ pc' = [pc EXCEPT ![c] = "fetch"]
                /\ Locals(c, NoResponse, NoResponse, Contact(log, r + 1, "primary"))
                /\ UNCHANGED <<cachedData, lastFetchTime, ret>>
           ELSE /\ UNCHANGED region
                /\ IF all = <<>>
                     THEN Throw(c, "No data could be fetched from any region sheets", errs, log)
                     ELSE Return(c, all, log)

(***************************************************************************)
(* fetchGoogleSheetData is called: the cache check, and on a miss the      *)
(* first fetch is issued.                                                  *)
(***************************************************************************)
Call(c) ==
  /\ pc[c] = "idle"
  /\ now' = [now EXCEPT ![c] = clock]
  /\ IF CacheValid(clock)
       THEN /\ pc' = [pc EXCEPT ![c] = "done"]
            /\ ret' = [ret EXCEPT ![c] = Value(cachedData.list)]
            /\ UNCHANGED <<region, attempts>>
       ELSE /\ pc' = [pc EXCEPT ![c] = "fetch"]
            /\ region' = [region EXCEPT ![c] = IF version = "regions" THEN 1 ELSE 0]
            /\ attempts' = [attempts EXCEPT ![c] =
                              Contact(<<>>, IF version = "regions" THEN 1 ELSE 0, "primary")]
            /\ UNCHANGED ret
  /\ UNCHANGED <<version, tz, clock, cachedData, lastFetchTime, response,
                 altResponse, allEmployees, errors>>
  /\ UNCHANGED pureVars

\* await fetch(sheetUrl) ("proxy": await fetch(backendUrl)) settles with
\* one of outs
FetchSettles(c, outs) ==
  /\ pc[c] = "fetch"
  /\ \E out \in outs :
       LET log == attempts[c]
       IN  CASE version = "single" ->
                  IF out.raised THEN FinishSingle(c, <<>>, "Failed to fetch", log)
                  ELSE IF out.ok THEN Suspend(c, "text", out, NoResponse, log)
                  ELSE Suspend(c, "altFetch", out, NoResponse, Contact(log, 0, "alternate"))
             [] version = "proxy" ->
                  IF out.raised THEN DirectProxy(c, log)
                  ELSE IF out.ok THEN Suspend(c, "text", out, NoResponse, log)
                  ELSE DirectProxy(c, log)
             [] version = "regions" ->
                  IF out.raised THEN FinishRegion(c, <<>>, "Failed to fetch", log)
                  ELSE IF out.ok THEN Suspend(c, "text", out, NoResponse, log)
                  ELSE Suspend(c, "altFetch", out, NoResponse,
                               Contact(log, region[c], "alternate"))
  /\ UNCHANGED <<version, tz, clock, now>>
  /\ UNCHANGED pureVars

\* await response.text() settles
TextSettles(c) ==
  /\ pc[c] = "text"
  /\ LET body == response[c].body
         rejects == ~response[c].readable
         log == attempts[c]
     IN  CASE version = "single" ->
                IF rejects THEN FinishSingle(c, <<>>, "Failed to read the body", log)
                  ELSE FinishSingle(c, body, "", log)
             [] version = "proxy" ->
                  IF rejects THEN DirectProxy(c, log)
                  ELSE \E r \in {ParsedProxy[body, clock, tz]} :
                         IF r.threw THEN DirectProxy(c, log)
                         ELSE /\ Return(c, r.list, log)
                              /\ UNCHANGED <<region, allEmployees, errors>>
             [] version = "regions" ->
                  IF rejects THEN FinishRegion(c, <<>>, "Failed to read the body", log)
                  ELSE FinishRegion(c, body, "", log)
  /\ UNCHANGED <<version, tz, clock, now>>
  /\ UNCHANGED pureVars

\* await fetch(altUrl) ("proxy": await fetch(SHEET_URL)) settles with one
\* of outs
AltFetchSettles(c, outs) ==
  /\ pc[c] = "altFetch"
  /\ \E out \in outs :
       LET log == attempts[c]
       IN  CASE version = "single" ->
                  IF out.raised THEN FinishSingle(c, <<>>, "Direct fetch returned 404", log)
                  ELSE IF out.ok THEN Suspend(c, "altText", response[c], out, log)
                  ELSE FinishSingle(c, <<>>, "Both direct fetch (404) and alternative URL (404) failed", log)
             [] version = "proxy" ->
                  IF out.raised THEN FailProxy(c, "Failed to fetch", log)
                  ELSE IF out.ok THEN Suspend(c, "altText", NoResponse, out, log)
                  ELSE FailProxy(c, "Failed to fetch sheet: Not Found", log)
             [] version = "regions" ->
                  IF out.raised THEN Suspend(c, "errorText", response[c], NoResponse, log)
                  ELSE IF out.ok THEN Suspend(c, "altText", response[c], out, log)
                  ELSE Suspend(c, "errorText", response[c], out, log)
  /\ UNCHANGED <<version, tz, clock, now>>
  /\ UNCHANGED pureVars

\* await altResponse.text() ("proxy": the direct response's text()) settles
AltTextSettles(c) ==
  /\ pc[c] = "altText"
  /\ LET body == altResponse[c].body
         rejects == ~altResponse[c].readable
         log == attempts[c]
     IN  CASE version = "single" ->
                  IF rejects THEN FinishSingle(c, <<>>, "Direct fetch returned 404", log)
                  ELSE FinishSingle(c, body, "", log)
             [] version = "proxy" ->
                  IF rejects THEN FailProxy(c, "Failed to read the body", log)
                  ELSE \E r \in {ParsedProxy[body, clock, tz]} :
                         IF r.threw THEN FailProxy(c, r.message, log)
                         ELSE /\ Return(c, r.list, log)
                              /\ UNCHANGED <<region, allEmployees, errors>>
             [] version = "regions" ->
                  IF rejects
                    THEN Suspend(c, "errorText", response[c], NoResponse, log)
                    ELSE FinishRegion(c, body, "", log)
  /\ UNCHANGED <<version, tz, clock, now>>
  /\ UNCHANGED pureVars

\* "regions": await response.text().catch(() => response.statusText) settles,
\* after the alternate endpoint answered with a failure status or the
\* alternate attempt raised
ErrorTextSettles(c) ==
  /\ pc[c] = "errorText"
  /\ FinishRegion(c, <<>>,
                  IF altResponse[c].status # 0
                    THEN "Both direct fetch (404) and alternative URL (404) failed"
                    ELSE "Direct fetch returned 404",
                  attempts[c])
  /\ UNCHANGED <<version, tz, clock, now>>
  /\ UNCHANGED pureVars

(***************************************************************************)
(* Two calls of fetchGoogleSheetData, which may overlap: App.loadData on   *)
(* mount and on the refresh button, against a service with the usual       *)
(* answers.                                                                *)
(***************************************************************************)
Next ==
  \/ Tick
  \/ \E c \in Calls : Call(c)
  \/ \E c \in Calls : FetchSettles(c, UsualOutcomes(version))
  \/ \E c \in Calls : TextSettles(c)
  \/ \E c \in Calls : AltFetchSettles(c, UsualOutcomes(version))
  \/ \E c \in Calls : AltTextSettles(c)
  \/ \E c \in Calls : ErrorTextSettles(c)

Spec == Init /\ [][Next]_vars

(***************************************************************************)
(* One call of fetchGoogleSheetData against a service that may answer with *)
(* any of FetchOutcomes.                                                   *)
(***************************************************************************)
NextFetch ==
  \/ Tick
  \/ Call("mount")
  \/ FetchSettles("mount", FetchOutcomes(version))
  \/ TextSettles("mount")
  \/ AltFetchSettles("mount", FetchOutcomes(version))
  \/ AltTextSettles("mount")
  \/ ErrorTextSettles("mount")

SpecFetch == Init /\ [][NextFetch]_vars

(***************************************************************************)
(* Properties.                                                             *)
(***************************************************************************)
Terminal == {"done", "failed"}

\* the call has called fetch for the endpoint of region r (0: the one sheet)
Contacted(c, r, endpoint) ==
  \E i \in 1..Len(attempts[c]) :
    attempts[c][i] = [region |-> r, endpoint |-> endpoint]

\* this step is the call c returning a list it has retrieved itself
Stores(c) == pc[c] \notin Terminal /\ pc[c] # "idle" /\ pc'[c] = "done"

\* C1: a call made while a list is stored and the time since the stored
\* timestamp is below 5 minutes contacts no endpoint and returns the stored
\* list, so of two calls within that window only the first retrieves.
C1_HitWithinTtl ==
  [][\A c \in Calls :
       (/\ pc[c] = "idle" /\ pc'[c] # "idle"
        /\ cachedData.set
        /\ clock - lastFetchTime < 5 * 60 * 1000)
       => (/\ pc'[c] = "done"
           /\ ret'[c] = Value(cachedData.list)
           /\ attempts'[c] = <<>>
           /\ cachedData' = cachedData /\ lastFetchTime' = lastFetchTime)]_vars

\* the first call retrieved and stored, the second came later within the
\* window and got the stored list without contacting an endpoint
C1_Witness ==
  /\ pc["mount"] = "done" /\ attempts["mount"] # <<>>
  /\ pc["refresh"] = "done" /\ attempts["refresh"] = <<>>
  /\ now["refresh"] > now["mount"]
  /\ ret["refresh"] = ret["mount"] /\ ret["mount"].list # <<>>

\* C2: the cached list and the stored timestamp change only in a step in
\* which a call returns the list it retrieved; a call that fails has at no
\* step changed either of them.
C2_FailureKeepsEntry ==
  [][(cachedData' # cachedData \/ lastFetchTime' # lastFetchTime)
       => \E c \in Calls : Stores(c) /\ ret'[c].kind = "value"]_vars

\* the first call stored an entry; the second call found it expired, ran
\* and failed, and the entry is the one the first call stored
C2_Witness ==
  /\ pc["mount"] = "done" /\ attempts["mount"] # <<>>
  /\ pc["refresh"] = "failed"
  /\ now["refresh"] - now["mount"] >= CACHE_DURATION
  /\ cachedData = Data(ret["mount"].list) /\ lastFetchTime = now["mount"]

\* C3: a call that missed retrieves by itself; the step in which it returns
\* writes its own list and its own timestamp, so that the entry is that of
\* the call that stored last; and in every state the entry's list and
\* timestamp are those of one call that retrieved and returned.
C3_NoTornEntry ==
  /\ [](/\ \A c \in Calls :
             pc[c] \notin {"idle"} \cup Terminal => attempts[c] # <<>>
        /\ cachedData.set =>
             \E c \in Calls : /\ pc[c] = "done" /\ attempts[c] # <<>>
                               /\ cachedData = Data(ret[c].list)
                               /\ lastFetchTime = now[c])
  /\ [][\A c \in Calls :
          Stores(c) => /\ attempts'[c] # <<>>
                       /\ cachedData' = Data(ret'[c].list)
                       /\ lastFetchTime' = now[c]]_vars

\* both calls missed and overlapped; the call that began first stored
\* last, with another list, and the entry is wholly that call's
C3_Witness ==
  /\ pc["mount"] = "done" /\ pc["refresh"] = "done"
  /\ attempts["mount"] # <<>> /\ attempts["refresh"] # <<>>
  /\ now["mount"] < now["refresh"]
  /\ ret["mount"].list # ret["refresh"].list
  /\ cachedData = Data(ret["mount"].list) /\ lastFetchTime = now["mount"]

\* C4: a call misses when no list is stored or the time since the stored
\* timestamp is 5 minutes or more (exactly 5 minutes included); it then
\* retrieves, and the step in which it returns stores its list with the
\* clock value of that moment as the timestamp and returns that list.
C4_StoresCurrentTime ==
  [][\A c \in Calls :
       /\ (/\ pc[c] = "idle" /\ pc'[c] # "idle"
           /\ (~cachedData.set \/ clock - lastFetchTime >= 5 * 60 * 1000))
          => (pc'[c] = "fetch" /\ attempts'[c] # <<>>)
       /\ Stores(c) => /\ cachedData' = Data(ret'[c].list)
                       /\ lastFetchTime' = clock]_vars

\* C5: the alternate endpoint of a source is contacted when, and only when,
\* the primary has not delivered a successful answer with a non-empty body:
\* a successful answer whose body is empty makes the call go on to the
\* alternate endpoint, and a successful answer whose body is not empty ends
\* the attempts for that source.
C5_FirstNonEmptyBodyWins ==
  [][\A c \in Calls :
       (pc[c] = "text" /\ pc'[c] # "text" /\ response[c].readable)
       => IF response[c].body = <<>>
            THEN /\ pc'[c] = "altFetch"
                 /\ attempts'[c] = Append(attempts[c],
                                          [region |-> region[c], endpoint |-> "alternate"])
            ELSE \A i \in 1..Len(attempts'[c]) :
                   attempts'[c][i] # [region |-> region[c], endpoint |-> "alternate"]]_vars

\* C6: whenever a call records that a source gave no data (in "regions" a
\* reason is added to errors, otherwise the call throws for want of data),
\* the alternate endpoint of that source has been contacted.
C6_FailedAfterAllEndpoints ==
  [][\A c \in Calls :
       LET r == region[c]
           recorded ==
             IF version = "regions"
               THEN /\ Len(errors'[c]) = Len(errors[c]) + 1
                    /\ errors'[c][Len(errors'[c])].message = "No CSV data received"
               ELSE /\ pc[c] \notin Terminal /\ pc'[c] = "failed"
                    /\ ret'[c].reasons[1].message
                         \in {"No CSV data received", "Failed to fetch",
                              "Failed to fetch sheet: Not Found", "Failed to read the body"}
       IN  recorded => Contacted(c, r, "alternate")]_vars

\* the records the source of this iteration delivers in this step: those of
\* the body just read, when it is parsed without an exception
Delivered(c) ==
  LET resp == IF pc[c] = "text" THEN response[c] ELSE altResponse[c]
  IN  IF pc[c] \in {"text", "altText"} /\ resp.readable /\ resp.body # <<>>
        THEN parseSheetDataRegions(resp.body, REGION_SHEETS[region[c]], clock, tz).list
        ELSE <<>>

\* C7: with the region sheets, a run that has ended has contacted every
\* region, whatever happened to the regions before it; the records a
\* region delivers are added to those gathered and none is dropped later;
\* and a run that has gathered a record returns all the gathered records.
C7_OtherSourcesProceed ==
  /\ [](\A c \in Calls :
          (version = "regions" /\ pc[c] \in Terminal /\ attempts[c] # <<>>)
          => /\ \A r \in 1..NumRegions : Contacted(c, r, "primary")
             /\ allEmployees[c] # <<>>
                  => (pc[c] = "done" /\ ret[c] = Value(allEmployees[c])))
  /\ [][\A c \in Calls :
          (version = "regions" /\ pc[c] \notin {"idle"} \cup Terminal)
          => allEmployees'[c] = IF pc'[c] # pc[c]
                                  THEN allEmployees[c] \o Delivered(c)
                                  ELSE allEmployees[c]]_vars

\* the first region's sheet raised while it was parsed, the second
\* delivered, and the run returned the second region's records
C7_Witness ==
  /\ version = "regions" /\ pc["mount"] = "done"
  /\ \E i \in 1..Len(errors["mount"]) :
       /\ errors["mount"][i].region = 1
       /\ errors["mount"][i].message = "Error fetching data"
  /\ ret["mount"].list # <<>>
  /\ \A i \in 1..Len(ret["mount"].list) :
       ret["mount"].list[i].branch = REGION_SHEETS[2]

\* C8: a run that has ended without a record has failed, its error holds
\* one reason for each source, and nothing has been returned or stored.
C8_NoDataReasons ==
  \A c \in Calls :
    (pc[c] \in Terminal /\ attempts[c] # <<>> /\ ret[c].list = <<>>)
    => /\ pc[c] = "failed"
       /\ Len(ret[c].reasons) = (IF version = "regions" THEN NumRegions ELSE 1)
       /\ \A r \in 1..Len(ret[c].reasons) :
            ret[c].reasons[r].region = (IF version = "regions" THEN r ELSE 0)
       /\ ~cachedData.set

\* C9: a call that has returned has returned a list with a record; it is
\* never an empty list.
C9_NeverEmptySuccess ==
  \A c \in Calls : pc[c] = "done" => ret[c].list # <<>>

\* the messages of the errors for want of data and for an empty result
NoDataMessages ==
  {"No CSV data received", "Failed to fetch", "Failed to fetch sheet: Not Found",
   "Failed to read the body"}
EmptyResultMessages ==
  {"Sheet data is empty or invalid", "No valid employee data found in sheet"}

\* C10: no row makes a source or a run end with an exception: the reasons
\* recorded for sources say that no data was received, and the error of a
\* call that has failed says that or that the result was empty.
C10_NoRowAborts ==
  \A c \in Calls :
    /\ \A i \in 1..Len(errors[c]) : errors[c][i].message \in NoDataMessages
    /\ pc[c] = "failed"
         => \A i \in 1..Len(ret[c].reasons) :
              ret[c].reasons[i].message \in NoDataMessages \cup EmptyResultMessages

(***************************************************************************)
(* The row loop of parseSheetData run on its own: the header is that of    *)
(* the loaded revision's sheet, the window starts are computed once from   *)
(* the clock and the UTC offset, and every step is one iteration of the    *)
(* loop on a line drawn from DataLines.                                    *)
(***************************************************************************)
MaxRows == 2       \* the row loop reads at most this many lines

\* UTC offsets of the environments of a run: New York (winter), UTC, Tashkent
RunOffsets == TimeZones \cup {-300}

\* two digits, and `YYYY-MM-DD`, of numbers
TwoDigits(n) == <<Digits[(n \div 10) + 1], Digits[(n % 10) + 1]>>
FourDigits(n) == TwoDigits(n \div 100) \o TwoDigits(n % 100)
IsoString(d) == FourDigits(d.y) \o <<"-">> \o TwoDigits(d.m) \o <<"-">> \o TwoDigits(d.d)

\* the calendar days of the date cells: the day the module is loaded
\* (2024-01-31), the next day, and the days 1, 7, 8, 30, 31, 180, 181, 365
\* and 366 days before it; ago is the number of days before the loaded day
CalendarDays ==
  { [y |-> 2024, m |-> 1, d |-> 31, ago |-> 0],
    [y |-> 2024, m |-> 2, d |-> 1, ago |-> -1],
    [y |-> 2024, m |-> 1, d |-> 30, ago |-> 1],
    [y |-> 2024, m |-> 1, d |-> 24, ago |-> 7],
    [y |-> 2024, m |-> 1, d |-> 23, ago |-> 8],
    [y |-> 2024, m |-> 1, d |-> 1, ago |-> 30],
    [y |-> 2023, m |-> 12, d |-> 31, ago |-> 31],
    [y |-> 2023, m |-> 8, d |-> 4, ago |-> 180],
    [y |-> 2023, m |-> 8, d |-> 3, ago |-> 181],
    [y |-> 2023, m |-> 1, d |-> 31, ago |-> 365],
    [y |-> 2023, m |-> 1, d |-> 30, ago |-> 366] }

Ali == <<"A", "l", "i">>
ALI == <<"A", "L", "I">>
AliPipe == <<"A", "l", "i", "|", "w">>
AliSpaceV == <<"A", "l", "i", " ", "V">>
AliHyphenV == <<"A", "l", "i", "-", "V">>
PipeToshkent == <<"w", "|">> \o Toshkent
TotalName == <<"T", "o", "t", "a", "l">>
SubtotalName == <<"s", "u", "b", "t", "o", "t", "a", "l">>
One == <<"1">>
Zero == <<"0">>
Cell500 == <<"5", "0", "0">>
CellMinus500 == <<"-", "5", "0", "0">>
LoadedDay == IsoString([y |-> 2024, m |-> 1, d |-> 31, ago |-> 0])
NoCalendarDay == IsoString([y |-> 2024, m |-> 13, d |-> 45, ago |-> 0])

\* a data line of the sheet of revision v, as parseCSVLine splits it; the
\* columns are those of HeaderSingle, HeaderProxy and HeaderRegions
SheetRow(v, dateStr, name, branch, contract, invoice) ==
  CASE v = "single" -> Row(<<One, dateStr, branch, contract, invoice, name, <<>>>>)
    [] v = "proxy" -> Row(<<dateStr, name, branch, contract, invoice>>)
    [] v = "regions" -> Row(<<dateStr, name, contract, invoice>>)

\* the lines the loop may read: a blank line; a plain row for every calendar
\* day; and on the loaded day rows with the name in capitals, another
\* branch, names and branches holding the key's separator, the marker
\* "total", no sales, negative cells, and a date of no calendar day
DataLines(v) ==
  {BlankLine}
  \cup {SheetRow(v, IsoString(d), Ali, Toshkent, One, Cell500) : d \in CalendarDays}
  \cup {SheetRow(v, LoadedDay, row[1], row[2], row[3], row[4]) :
          row \in { <<ALI, Toshkent, One, Cell500>>,
                    <<Ali, Samarqand, One, Cell500>>,
                    <<AliPipe, Toshkent, One, Cell500>>,
                    <<Ali, PipeToshkent, One, Cell500>>,
                    <<AliSpaceV, Toshkent, One, Cell500>>,
                    <<AliHyphenV, Toshkent, One, Cell500>>,
                    <<Ali, ToLowerCase(Toshkent), One, Cell500>>,
                    <<TotalName, Toshkent, One, Cell500>>,
                    <<SubtotalName, Toshkent, One, Cell500>>,
                    <<Ali, Toshkent, Zero, Zero>>,
                    <<Ali, Toshkent, Zero, CellMinus500>>,
                    <<Ali, Toshkent, One, CellMinus500>> }}
  \cup {SheetRow(v, NoCalendarDay, Ali, Toshkent, One, Cell500)}

\* the header line of the sheet of revision v
HeaderOf(v) ==
  CASE v = "single" -> HeaderSingle
    [] v = "proxy" -> HeaderProxy
    [] v = "regions" -> HeaderRegions

\* no call of fetchGoogleSheetData is made
NoCalls ==
  /\ clock = StartClock
  /\ cachedData = NullData
  /\ lastFetchTime = 0
  /\ pc = [c \in Calls |-> "idle"]
  /\ now = [c \in Calls |-> 0]
  /\ region = [c \in Calls |-> 0]
  /\ response = [c \in Calls |-> NoResponse]
  /\ altResponse = [c \in Calls |-> NoResponse]
  /\ allEmployees = [c \in Calls |-> <<>>]
  /\ errors = [c \in Calls |-> <<>>]
  /\ attempts = [c \in Calls |-> <<>>]
  /\ ret = [c \in Calls |-> NoResult]

fetchVars == <<version, tz, clock, cachedData, lastFetchTime, pc, now, region,
               response, altResponse, allEmployees, errors, attempts, ret>>

\* parseSheetData has read the header and computed the window starts
InitAggregate ==
  /\ version \in Versions
  /\ tz \in RunOffsets
  /\ NoCalls
  /\ \E r \in 1..NumRegions :
       parseRun = [NoParseRun EXCEPT
                     !.idx = HeaderIdx(HeaderOf(version)),
                     !.regionName = IF version = "regions" THEN REGION_SHEETS[r] ELSE <<>>]
  /\ csvRun = NoCsvRun
  /\ fnCall = NoFnCall
  /\ view = NoView

\* one iteration of the row loop
ReadLine ==
  /\ parseRun.rows < MaxRows
  /\ ~parseRun.threw
  /\ \E line \in DataLines(version) :
       \E r \in {RowStep(version, line, parseRun.idx,
                         WindowStarts(clock, tz), parseRun.employeeMap,
                         parseRun.regionName)} :
         parseRun' = [rows |-> parseRun.rows + 1, line |-> line,
                      regionName |-> parseRun.regionName, threw |-> r.threw,
                      idx |-> parseRun.idx,
                      before |-> parseRun.employeeMap, employeeMap |-> r.map]
  /\ UNCHANGED <<fetchVars, csvRun, fnCall, view>>

NextAggregate == ReadLine

SpecAggregate == InitAggregate /\ [][NextAggregate]_vars

(***************************************************************************)
(* Properties of the row loop.                                             *)
(***************************************************************************)
\* the five window totals, from the shortest window to the longest
Windows == <<"today", "week", "month", "sixMonths", "year">>

\* the record at position i of an employee map, all zero when the map has
\* no such position yet
RecordAt(employeeMap, i) ==
  IF i <= Len(employeeMap) THEN employeeMap[i].val ELSE NewEmployee(<<>>, <<>>)

\* what the line just read has added to window w of the record at i
Counted(i, w) ==
  RecordAt(parseRun'.employeeMap, i)[Windows[w]]
    - RecordAt(parseRun.employeeMap, i)[Windows[w]]

\* C11: in every record, after every line read, today <= week <= month <=
\* sixMonths <= year; and what a line adds to a window it adds to every
\* longer window.
C11_WindowsNest ==
  /\ [](\A i \in 1..Len(parseRun.employeeMap) : \A w \in 1..4 :
          parseRun.employeeMap[i].val[Windows[w]]
            <= parseRun.employeeMap[i].val[Windows[w + 1]])
  /\ [][\A i \in 1..Len(parseRun'.employeeMap) : \A w \in 1..4 :
          /\ Counted(i, w) >= 0
          /\ Counted(i, w) > 0 => Counted(i, w + 1) = Counted(i, w)]_vars

\* a record that merged a row of the current day and a row of another day
\* of the week: its week total is above its today total
C11_Witness ==
  /\ parseRun.rows = 2
  /\ \E i \in 1..Len(parseRun.employeeMap) :
       LET e == parseRun.employeeMap[i].val
       IN  0 < e.today /\ e.today < e.week /\ e.week = e.year

\* the plain row of calendar day d
PlainRow(d) == SheetRow(version, IsoString(d), Ali, Toshkent, One, Cell500)

\* the start of window w as the program computes it, in days before the
\* loaded day
WindowStartNames ==
  <<"todayStr", "weekAgoStr", "monthAgoStr", "sixMonthsAgoStr", "yearAgoStr">>
StartAgo(w) == RefDay - WindowStarts(clock, tz)[WindowStartNames[w]]

\* C12: when the line read is an accepted row of calendar day D, its sale
\* amount is added to a window, the today window included, exactly when the
\* start of the window is on or before D.
C12_CountedFromWindowStart ==
  [][\A d \in CalendarDays :
       parseRun'.line = PlainRow(d) =>
         \A w \in 1..5 :
           IF d.ago <= StartAgo(w)
             THEN \E i \in 1..Len(parseRun'.employeeMap) : Counted(i, w) > 0
             ELSE \A i \in 1..Len(parseRun'.employeeMap) : Counted(i, w) = 0]_vars

\* C12, amended: when the line read is an accepted row of calendar day D,
\* its sale amount is added to the today window exactly when D is the day
\* the today window starts, and to each of the four other windows exactly
\* when the start of the window is on or before D.
C12_CountedByWindowRule ==
  [][\A d \in CalendarDays :
       parseRun'.line = PlainRow(d) =>
         \A w \in 1..5 :
           IF (IF w = 1 THEN d.ago = StartAgo(w) ELSE d.ago <= StartAgo(w))
             THEN \E i \in 1..Len(parseRun'.employeeMap) : Counted(i, w) > 0
             ELSE \A i \in 1..Len(parseRun'.employeeMap) : Counted(i, w) = 0]_vars

\* the row read is dated after the day the today window starts: it is in
\* the week, month, six-month and year totals and not in today's
C12_Witness ==
  /\ parseRun.rows = 1
  /\ \E d \in CalendarDays : parseRun.line = PlainRow(d) /\ d.ago < StartAgo(1)
  /\ Len(parseRun.employeeMap) = 1
  /\ parseRun.employeeMap[1].val.today = 0
  /\ parseRun.employeeMap[1].val.week > 0
  /\ parseRun.employeeMap[1].val.week = parseRun.employeeMap[1].val.year

\* the current calendar day in the time zone of the run, in days before
\* the loaded day
LocalDayAgo == 0 - ((clock + tz * 60 * 1000) \div DayMs)

\* C13: whatever the UTC offset of the environment, a row dated the current
\* local calendar day is counted in today, and a row dated the day before
\* is not.
C13_TodayIsLocalDay ==
  [][\A d \in CalendarDays :
       parseRun'.line = PlainRow(d) =>
         /\ d.ago = LocalDayAgo
              => \E i \in 1..Len(parseRun'.employeeMap) : Counted(i, 1) > 0
         /\ d.ago = LocalDayAgo + 1
              => \A i \in 1..Len(parseRun'.employeeMap) : Counted(i, 1) = 0]_vars

\* the name and the branch the iteration of the loaded revision reads on a
\* data line
RowName(line) ==
  CASE version = "single" -> CellsSingle(FieldsOf(line), HeaderIdx(HeaderOf(version))).name
    [] version = "proxy" -> CellsProxy(FieldsOf(line), HeaderIdx(HeaderOf(version))).name
    [] version = "regions" -> CellsRegions(FieldsOf(line), HeaderIdx(HeaderOf(version))).name
RowBranch(line) ==
  CASE version = "single" -> CellsSingle(FieldsOf(line), HeaderIdx(HeaderOf(version))).branch
    [] version = "proxy" -> CellsProxy(FieldsOf(line), HeaderIdx(HeaderOf(version))).branch
    [] version = "regions" -> parseRun.regionName

\* the (lowercased name, branch) pair of a record
PairOf(employee) == <<ToLowerCase(employee.name), employee.branch>>

\* C14: no two records of a result have the same (lowercased name, branch)
\* pair, and a row is accumulated into, or creates, only the record of its
\* own pair: rows that differ in letter case only share one record, which
\* keeps the display name of its first row, and a row of another branch
\* never changes it.
C14_OneRecordPerPair ==
  /\ [](\A i, j \in 1..Len(parseRun.employeeMap) :
          i # j => PairOf(parseRun.employeeMap[i].val) # PairOf(parseRun.employeeMap[j].val))
  /\ [][\A i \in 1..Len(parseRun'.employeeMap) :
          RecordAt(parseRun.employeeMap, i) # parseRun'.employeeMap[i].val =>
            /\ PairOf(parseRun'.employeeMap[i].val)
                 = <<ToLowerCase(RowName(parseRun'.line)), RowBranch(parseRun'.line)>>
            /\ i <= Len(parseRun.employeeMap) =>
                 parseRun'.employeeMap[i].val.name = parseRun.employeeMap[i].val.name]_vars

\* the text of a data line contains "total" in some letter case
HasTotalMarker(line) ==
  \E i \in 1..Len(line.fields) :
    Includes(ToLowerCase(line.fields[i]), <<"t", "o", "t", "a", "l">>)

\* C15: a blank data line, and a data line whose text contains "total" in
\* any letter case, leaves the employee map as it was: no record is
\* created and no total and no lifetime sum changes.
C15_TotalLinesIgnored ==
  [][(parseRun'.line = BlankLine \/ HasTotalMarker(parseRun'.line))
       => parseRun'.employeeMap = parseRun.employeeMap]_vars

\* the sale amount the iteration of the loaded revision computes on a line
RowSaleAmount(line) ==
  CASE version = "single" ->
         LET row == CellsSingle(FieldsOf(line), HeaderIdx(HeaderOf(version)))
         IN  (IF row.amount6mln > 0 THEN 6000000 * row.amount6mln ELSE 0) + row.invoice
    [] version = "proxy" ->
         LET row == CellsProxy(FieldsOf(line), HeaderIdx(HeaderOf(version)))
         IN  row.contracts + row.invoice3000
    [] version = "regions" ->
         LET row == CellsRegions(FieldsOf(line), HeaderIdx(HeaderOf(version)))
         IN  row.sharnomaTuriValue + row.invoice

\* C16: a row whose sale amount is zero or negative leaves the employee map
\* as it was, and the five rolling totals of every record are never
\* negative, also after rows with negative metric cells.
C16_NoSaleRowSkipped ==
  /\ [](\A i \in 1..Len(parseRun.employeeMap) : \A w \in 1..5 :
          parseRun.employeeMap[i].val[Windows[w]] \in Nat)
  /\ [][RowSaleAmount(parseRun'.line) <= 0
          => parseRun'.employeeMap = parseRun.employeeMap]_vars

\* a record exists, and the row read last, with a negative invoice cell
\* and a negative sale amount, has left it as it was
C16_Witness ==
  /\ parseRun.rows = 2
  /\ parseRun.line = SheetRow(version, LoadedDay, Ali, Toshkent, Zero, CellMinus500)
  /\ RowSaleAmount(parseRun.line) < 0
  /\ Len(parseRun.employeeMap) = 1
  /\ parseRun.employeeMap[1].val.year > 0
  /\ parseRun.employeeMap = parseRun.before

(***************************************************************************)
(* parseDate and safeParseInt called on their own, on cells built from a   *)
(* few characters and from one- and two-digit date parts.  The date cells  *)
(* are those every engine reads alike: months January and December, days   *)
(* up to 31, and parts that name no month or day at all; a cell of the     *)
(* D.M.YYYY shape reaches new Date(dateStr) in the "proxy" revision, where *)
(* it names no date when its first part is above 12.                       *)
(***************************************************************************)
MaxCellLen == 3
CellChars == {"1", "2", "-", " ", "a"}
IntCells ==
  UNION {[1..n -> CellChars] : n \in 0..MaxCellLen}
    \cup {<<"1", " ", "5", "0", "0", " ", "0", "0", "0">>, <<"a", "b", "c">>,
          <<"-", "1", "2">>, <<"1", "2", "a", "b", "c">>, <<"1", ",", "5", "0", "0">>}

Y2024 == <<"2", "0", "2", "4">>
DateParts == {<<"1">>, <<"0", "1">>, <<"1", "2">>, <<"1", "3">>, <<"3", "1">>, <<"3", "2">>}
TwoDigitParts == {p \in DateParts : Len(p) = 2} \cup {<<"4", "5">>, <<"0", "0">>}
IsoCells == {Y2024 \o <<"-">> \o m \o <<"-">> \o d : m \in TwoDigitParts \ {<<"3", "1">>, <<"3", "2">>, <<"4", "5">>}, d \in TwoDigitParts}
SepCells(sep) == {a \o <<sep>> \o b \o <<sep>> \o Y2024 : a, b \in DateParts}
DateCells(v) ==
  {<<>>, <<"a", "b", "c">>, <<"n", "/", "a">>, <<"-">>}
    \cup IsoCells
    \cup SepCells("/")
    \cup {<<"3", "1", "/", "0", "1", "/">> \o Y2024, <<"0", "1", "/", "0", "2", "/">> \o Y2024}
    \cup {c \in SepCells(".") : v = "proxy" => SepMatch(c, ".").part1 > 12}
    \cup {<<"3", "1", ".", "0", "1", ".">> \o Y2024}

InitCells ==
  /\ version \in Versions
  /\ tz = 0
  /\ NoCalls
  /\ parseRun = NoParseRun
  /\ csvRun = NoCsvRun
  /\ fnCall = NoFnCall
  /\ view = NoView

CallParseDate ==
  /\ fnCall = NoFnCall
  /\ \E dateStr \in DateCells(version) :
       fnCall' = [fn |-> "parseDate", arg |-> dateStr,
                  date |-> IF version = "proxy" THEN parseDateProxy(dateStr)
                           ELSE parseDate(dateStr),
                  int |-> 0]
  /\ UNCHANGED <<fetchVars, parseRun, csvRun, view>>

CallSafeParseInt ==
  /\ fnCall = NoFnCall
  /\ \E value \in IntCells :
       fnCall' = [fn |-> "safeParseInt", arg |-> value, date |-> NoDate,
                  int |-> IF version = "proxy" THEN safeParseIntProxy(value)
                          ELSE safeParseInt(value)]
  /\ UNCHANGED <<fetchVars, parseRun, csvRun, view>>

NextCells == CallParseDate \/ CallSafeParseInt
SpecCells == InitCells /\ [][NextCells]_vars

\* C17: parseDate returns null or a valid date, never a Date object that is
\* no date: a cell of the ISO, dot or slash shape with a month above 12 or
\* a day above 31 gives null.
C17_ParseDateNeverInvalid ==
  [](fnCall.fn = "parseDate" => fnCall.date.isNull \/ fnCall.date.valid)

\* the calendar date y-m-d as parseDate returns it
Civil(y, m, d) == ValidDate(DaysFromCivil(y, m, d))

\* C18: a cell of the ISO shape is read as year-month-day, a cell D.M.YYYY
\* as day.month.year, a cell A/B/YYYY day-first when A is above 12 and
\* month-first otherwise: 31/01/2024 and 2024-01-31 are both 31 January
\* 2024, and 01/02/2024 is 2 January 2024.
C18_FormatsInOrder ==
  [](fnCall.fn = "parseDate" =>
       /\ \A m, d \in TwoDigitParts :
            fnCall.arg = Y2024 \o <<"-">> \o m \o <<"-">> \o d
              /\ NumberOf(m, 0) \in 1..12 /\ NumberOf(d, 0) \in 1..31
            => fnCall.date = Civil(2024, NumberOf(m, 0), NumberOf(d, 0))
       /\ \A a, b \in DateParts :
            LET p1 == NumberOf(a, 0)
                p2 == NumberOf(b, 0)
            IN  /\ fnCall.arg = a \o <<".">> \o b \o <<".">> \o Y2024
                     /\ p1 \in 1..31 /\ p2 \in 1..12
                   => fnCall.date = Civil(2024, p2, p1)
                /\ fnCall.arg = a \o <<"/">> \o b \o <<"/">> \o Y2024
                     /\ p1 \in 13..31 /\ p2 \in 1..12
                   => fnCall.date = Civil(2024, p2, p1)
                /\ fnCall.arg = a \o <<"/">> \o b \o <<"/">> \o Y2024
                     /\ p1 \in 1..12 /\ p2 \in 1..31
                   => fnCall.date = Civil(2024, p1, p2)
       /\ fnCall.arg \in {<<"3", "1", "/", "0", "1", "/">> \o Y2024,
                          Y2024 \o <<"-", "0", "1", "-", "3", "1">>}
            => fnCall.date = Civil(2024, 1, 31)
       /\ fnCall.arg = <<"0", "1", "/", "0", "2", "/">> \o Y2024
            => fnCall.date = Civil(2024, 1, 2))

\* the digits of a cell, and the value the stripping rule gives it: every
\* character but the digits and a minus sign in front of them is dropped,
\* the rest is read base 10, and 0 stands for no number
DigitsOf(s) == SelectSeq(s, IsDigit)
LeadingMinus(s) ==
  LET kept == SelectSeq(s, LAMBDA ch : IsDigit(ch) \/ ch = "-")
  IN  kept # <<>> /\ Head(kept) = "-"
StrippedValue(s) ==
  IF DigitsOf(s) = <<>> THEN 0
  ELSE IF LeadingMinus(s) THEN 0 - NumberOf(DigitsOf(s), 0)
  ELSE NumberOf(DigitsOf(s), 0)

\* C19: safeParseInt returns, for every cell, the number its digits spell,
\* negated when a minus sign leads them, and 0 when the cell has no digit:
\* "1 500 000" gives 1500000, "" gives 0, "-12" gives -12, "abc" gives 0.
C19_StripsThenParses ==
  [](fnCall.fn = "safeParseInt" => fnCall.int = StrippedValue(fnCall.arg))

(***************************************************************************)
(* parseCSVLine, one loop iteration at a time.  csvRun holds the line, the *)
(* loop index i (0-based), current, inQuotes, fields, and whether the      *)
(* function has returned.  The function is the same in the three           *)
(* revisions.                                                              *)
(***************************************************************************)
\* String.prototype.trim
RECURSIVE TrimEnd(_)
TrimEnd(s) == IF s # <<>> /\ IsSpace(s[Len(s)]) THEN TrimEnd(SubSeq(s, 1, Len(s) - 1)) ELSE s
Trim(s) == TrimEnd(SkipSpaces(s))

\* one iteration that splits at every comma, quoted or not
CsvStepSplitsQuoted(run) ==
  LET char == run.line[run.i + 1]
  IN  IF char = "\""
        THEN IF run.inQuotes /\ run.i + 1 < Len(run.line) /\ run.line[run.i + 2] = "\""
               THEN [run EXCEPT !.current = @ \o <<"\"">>, !.i = @ + 2]
               ELSE [run EXCEPT !.inQuotes = ~@, !.i = @ + 1]
      ELSE IF char = ","
        THEN [run EXCEPT !.fields = Append(@, Trim(run.current)),
                         !.current = <<>>, !.i = @ + 1]
      ELSE [run EXCEPT !.current = @ \o <<char>>, !.i = @ + 1]

\* the body of `for (let i = 0; i < line.length; i++)` with its i++
CsvStep(run) ==
  LET char == run.line[run.i + 1]
  IN  IF char = "\""
        THEN IF run.inQuotes /\ run.i + 1 < Len(run.line) /\ run.line[run.i + 2] = "\""
               THEN [run EXCEPT !.current = @ \o <<"\"">>, !.i = @ + 2]
               ELSE [run EXCEPT !.inQuotes = ~@, !.i = @ + 1]
      ELSE IF char = "," /\ ~run.inQuotes
        THEN [run EXCEPT !.fields = Append(@, Trim(run.current)),
                         !.current = <<>>, !.i = @ + 1]
      ELSE [run EXCEPT !.current = @ \o <<char>>, !.i = @ + 1]

MaxLineLen == 4
LineChars == {"a", ",", "\"", " "}
QuotedPairThenC == <<"\"", "a", ",", "b", "\"", ",", "c">>
QuotedDoubledQuote == <<"\"", "a", "\"", "\"", "b", "\"">>
CsvLines ==
  UNION {[1..n -> LineChars] : n \in 0..MaxLineLen}
    \cup {QuotedPairThenC, QuotedDoubledQuote}

InitCsv ==
  /\ version = "single"
  /\ tz = 0
  /\ NoCalls
  /\ parseRun = NoParseRun
  /\ fnCall = NoFnCall
  /\ view = NoView
  /\ \E line \in CsvLines : csvRun = [NoCsvRun EXCEPT !.line = line]

CsvChar ==
  /\ ~csvRun.returned
  /\ csvRun.i < Len(csvRun.line)
  /\ csvRun' = CsvStep(csvRun)
  /\ UNCHANGED <<fetchVars, parseRun, fnCall, view>>

CsvReturn ==
  /\ ~csvRun.returned
  /\ csvRun.i >= Len(csvRun.line)
  /\ csvRun' = [csvRun EXCEPT !.fields = Append(@, Trim(csvRun.current)),
                              !.returned = TRUE]
  /\ UNCHANGED <<fetchVars, parseRun, fnCall, view>>

NextCsv == CsvChar \/ CsvReturn
SpecCsv == InitCsv /\ [][NextCsv]_vars

\* the character the next iteration reads, "" at the end of the line
CharRead == IF csvRun.i < Len(csvRun.line) THEN csvRun.line[csvRun.i + 1] ELSE ""
NextCharIsQuote ==
  csvRun.i + 1 < Len(csvRun.line) /\ csvRun.line[csvRun.i + 2] = "\""

\* C20: parseCSVLine is the machine with the states Unquoted and Quoted:
\* a field is added, trimmed, exactly at a comma read in Unquoted and at
\* the end of the line, so the fields number 1 + the commas read in
\* Unquoted; a comma read in Quoted is kept in the field; a doubled quote
\* in Quoted gives one quote and stays Quoted; any other quote changes the
\* state and is not part of the field; the end of the line closes the last
\* field also in Quoted; "a,b",c has the two fields a,b and c.
C20_TwoStateMachine ==
  /\ [][/\ Len(csvRun'.fields) = Len(csvRun.fields)
             + (IF (CharRead = "," /\ ~csvRun.inQuotes) \/ CharRead = "" THEN 1 ELSE 0)
        /\ Len(csvRun'.fields) > Len(csvRun.fields)
             => csvRun'.fields[Len(csvRun'.fields)] = Trim(csvRun.current)
        /\ CharRead = "," /\ csvRun.inQuotes
             => /\ csvRun'.current = csvRun.current \o <<",">>
                /\ csvRun'.inQuotes
        /\ CharRead = "\"" /\ csvRun.inQuotes /\ NextCharIsQuote
             => /\ csvRun'.current = csvRun.current \o <<"\"">>
                /\ csvRun'.inQuotes
                /\ csvRun'.i = csvRun.i + 2
        /\ CharRead = "\"" /\ ~(csvRun.inQuotes /\ NextCharIsQuote)
             => /\ csvRun'.current = csvRun.current
                /\ csvRun'.inQuotes = ~csvRun.inQuotes
        /\ CharRead = "" => csvRun'.returned]_vars
  /\ [](csvRun.returned /\ csvRun.line = QuotedPairThenC
          => csvRun.fields = << <<"a", ",", "b">>, <<"c">> >>)
  /\ [](csvRun.returned /\ csvRun.line = QuotedDoubledQuote
          => csvRun.fields = << <<"a", "\"", "b">> >>)

\* the line "a,b",c has been read to its end and split in two
C20_Witness ==
  /\ csvRun.returned
  /\ csvRun.line = QuotedPairThenC
  /\ csvRun.i = 7
  /\ ~csvRun.inQuotes
  /\ csvRun.fields = << <<"a", ",", "b">>, <<"c">> >>

\* C22: a stored entry is never an empty list: the entry changes only in a
\* step in which a call returns the records it has gathered, it is then
\* that whole list, and that list holds a record.
C22_EntryNeverEmpty ==
  /\ [](cachedData.set => cachedData.list # <<>>)
  /\ [][cachedData' # cachedData
          => \E c \in Calls : /\ Stores(c)
                              /\ ret'[c].kind = "value"
                              /\ ret'[c].list # <<>>
                              /\ cachedData' = Data(ret'[c].list)]_vars

(***************************************************************************)
(* App: the list loadData received, the selected timeframe and branch, and *)
(* the sortedData of the render that follows every change of state.  The   *)
(* records have no <timeframe>Breakdown field, so getBreakdownForSort      *)
(* gives the lifetime invoice and amount6mln of a record.                  *)
(***************************************************************************)
MaxSheetRows == 2
Vali == <<"V", "a", "l", "i">>
SoldWeekAgo == IsoString([y |-> 2024, m |-> 1, d |-> 23])

\* the sheets loadData may receive the records of: rows of two employees,
\* sold on the loaded day or eight days before, with a contract, an
\* invoice, or both
AppLines(v) ==
  {SheetRow(v, dateStr, who[1], who[2], sold[1], sold[2]) :
     dateStr \in {LoadedDay, SoldWeekAgo},
     who \in {<<Ali, Toshkent>>, <<Vali, Samarqand>>},
     sold \in {<<Zero, Cell500>>, <<One, Zero>>, <<One, Cell500>>}}
AppSheets(v) == UNION {[1..n -> AppLines(v)] : n \in 1..MaxSheetRows}

\* the sort comparator: invoice descending, then amount6mln descending
SortCompare(a, b) ==
  IF b.invoice # a.invoice THEN b.invoice - a.invoice
  ELSE b.amount6mln - a.amount6mln

\* Array.prototype.sort (stable): the elements of list in comparator order
RECURSIVE InsertSorted(_, _)
InsertSorted(sorted, emp) ==
  IF sorted = <<>> THEN <<emp>>
  ELSE IF SortCompare(Head(sorted), emp) > 0 THEN <<emp>> \o sorted
  ELSE <<Head(sorted)>> \o InsertSorted(Tail(sorted), emp)
RECURSIVE Sort(_)
Sort(list) ==
  IF list = <<>> THEN <<>>
  ELSE InsertSorted(Sort(SubSeq(list, 1, Len(list) - 1)), list[Len(list)])

\* filteredData, timeframeFilteredData and sortedData of a render
Render(salesData, selectedTimeframe, selectedBranch) ==
  LET filteredData ==
        IF selectedBranch = AllBranches THEN salesData
        ELSE SelectSeq(salesData, LAMBDA emp : emp.branch = selectedBranch)
      timeframeFilteredData ==
        SelectSeq(filteredData, LAMBDA emp : emp[selectedTimeframe] > 0)
  IN  Sort(timeframeFilteredData)

InitApp ==
  /\ version \in Versions
  /\ tz = 0
  /\ NoCalls
  /\ parseRun = NoParseRun
  /\ csvRun = NoCsvRun
  /\ fnCall = NoFnCall
  /\ view = NoView

\* loadData: setSalesData(data), setLoading(false), and the render
SetSalesData ==
  /\ view.loading
  /\ \E sheet \in AppSheets(version) :
       LET regionName == IF version = "regions" THEN REGION_SHEETS[1] ELSE <<>>
           data == Values(RowLoop(version, sheet, 1, HeaderIdx(HeaderOf(version)),
                                  WindowStarts(clock, tz), <<>>, regionName).map)
       IN  view' = [view EXCEPT
                      !.salesData = data,
                      !.loading = FALSE,
                      !.sortedData = Render(data, view.selectedTimeframe,
                                            view.selectedBranch)]
  /\ UNCHANGED <<fetchVars, parseRun, csvRun, fnCall>>

\* setSelectedTimeframe(tf.key), and the render
SetSelectedTimeframe ==
  /\ ~view.loading
  /\ \E key \in {"today", "week", "month", "sixMonths", "year"} :
       view' = [view EXCEPT
                  !.selectedTimeframe = key,
                  !.sortedData = Render(view.salesData, key, view.selectedBranch)]
  /\ UNCHANGED <<fetchVars, parseRun, csvRun, fnCall>>

\* setSelectedBranch(branch), and the render
SetSelectedBranch ==
  /\ ~view.loading
  /\ \E branch \in {AllBranches} \cup {view.salesData[i].branch : i \in 1..Len(view.salesData)} :
       view' = [view EXCEPT
                  !.selectedBranch = branch,
                  !.sortedData = Render(view.salesData, view.selectedTimeframe, branch)]
  /\ UNCHANGED <<fetchVars, parseRun, csvRun, fnCall>>

NextApp == SetSalesData \/ SetSelectedTimeframe \/ SetSelectedBranch
SpecApp == InitApp /\ [][NextApp]_vars

\* C23: the rows of the leaderboard are in descending order of the total
\* of the selected timeframe, so the first row, the top performer, has the
\* largest total of that timeframe among the rows shown.
C23_RankedByTimeframeTotal ==
  [](\A i, j \in 1..Len(view.sortedData) :
       i < j => view.sortedData[i][view.selectedTimeframe]
                  >= view.sortedData[j][view.selectedTimeframe])

\* C27: the stored timestamp never goes back, whatever the order in which
\* overlapping calls store, and an entry that has just been stored is
\* younger than 5 minutes.
C27_TimestampMonotonic ==
  [][/\ lastFetchTime' >= lastFetchTime
     /\ \A c \in Calls : Stores(c) => clock - lastFetchTime' < CACHE_DURATION]_vars

\* C26: a call that begins when the stored entry is 5 minutes old or older
\* is not answered from it but contacts an endpoint; a call that fails
\* gives its caller the error and leaves the entry and its timestamp as
\* they were, so the entry stays expired for the calls after it; a call
\* contacts no endpoint twice; and the call that succeeds puts its list in
\* the entry's place.
C26_ExpiredNeverServed ==
  /\ [][\A c \in Calls :
          /\ (/\ pc[c] = "idle" /\ pc'[c] # "idle"
              /\ cachedData.set /\ clock - lastFetchTime >= CACHE_DURATION)
             => (pc'[c] = "fetch" /\ attempts'[c] # <<>> /\ ret'[c] = NoResult)
          /\ (pc[c] \notin Terminal /\ pc'[c] = "failed")
             => /\ ret'[c].kind = "error" /\ ret'[c].list = <<>>
                /\ cachedData' = cachedData /\ lastFetchTime' = lastFetchTime
          /\ Stores(c) => cachedData' = Data(ret'[c].list)]_vars
  /\ [](\A c \in Calls : \A i, j \in 1..Len(attempts[c]) :
          i # j => attempts[c][i] # attempts[c][j])

\* the entry the first call stored had expired when the second call began;
\* the second call contacted the endpoints, failed with an error, and the
\* expired entry is still there
C26_Witness ==
  /\ pc["mount"] = "done" /\ attempts["mount"] # <<>>
  /\ pc["refresh"] = "failed" /\ attempts["refresh"] # <<>>
  /\ ret["refresh"].kind = "error"
  /\ cachedData.set /\ now["refresh"] - lastFetchTime >= CACHE_DURATION
  /\ cachedData.list = ret["mount"].list

(***************************************************************************)
(* One call of the "regions" revision that begins half a tick before local *)
(* midnight; the clock may pass midnight while the call is suspended.      *)
(***************************************************************************)
InitMidnight ==
  /\ version = "regions"
  /\ tz \in TimeZones
  /\ clock = BeforeMidnight(tz)
  /\ cachedData = NullData
  /\ lastFetchTime = 0
  /\ pc = [c \in Calls |-> "idle"]
  /\ now = [c \in Calls |-> 0]
  /\ region = [c \in Calls |-> 0]
  /\ response = [c \in Calls |-> NoResponse]
  /\ altResponse = [c \in Calls |-> NoResponse]
  /\ allEmployees = [c \in Calls |-> <<>>]
  /\ errors = [c \in Calls |-> <<>>]
  /\ attempts = [c \in Calls |-> <<>>]
  /\ ret = [c \in Calls |-> NoResult]
  /\ parseRun = NoParseRun
  /\ csvRun = NoCsvRun
  /\ fnCall = NoFnCall
  /\ view = NoView

\* time passes midnight
TickPastMidnight ==
  /\ clock = BeforeMidnight(tz)
  /\ clock' = clock + TickMs
  /\ UNCHANGED <<version, tz, cachedData, lastFetchTime, pc, now, region,
                 response, altResponse, allEmployees, errors, attempts, ret>>
  /\ UNCHANGED pureVars

NextMidnight ==
  \/ TickPastMidnight
  \/ Call("mount")
  \/ FetchSettles("mount", FetchOutcomes(version))
  \/ TextSettles("mount")
  \/ AltFetchSettles("mount", FetchOutcomes(version))
  \/ AltTextSettles("mount")
  \/ ErrorTextSettles("mount")

SpecMidnight == InitMidnight /\ [][NextMidnight]_vars

\* the five window totals of a record
Totals(employee) == [w \in 1..5 |-> employee[Windows[w]]]

\* C25: the rows of all sources of one run are compared with the same five
\* window starts: in a result, two records that come from the same rows
\* (the same name and dates, in the sheets of two regions) have the same
\* five window totals, also when midnight passed between the two regions.
C25_OneSetOfBoundaries ==
  [](\A c \in Calls :
       pc[c] = "done" =>
         \A i, j \in 1..Len(ret[c].list) :
           (/\ ret[c].list[i].name = ret[c].list[j].name
            /\ ret[c].list[i].amount6mln = ret[c].list[j].amount6mln
            /\ ret[c].list[i].invoice = ret[c].list[j].invoice)
           => Totals(ret[c].list[i]) = Totals(ret[c].list[j]))

\* C28: no two records of a result have the same id.
C28_IdsDistinct ==
  [](\A i, j \in 1..Len(parseRun.employeeMap) :
       i # j => parseRun.employeeMap[i].val.id # parseRun.employeeMap[j].val.id)

\* what parseDate gives for the date cell of a line in the loaded revision
RowParsedDate(line) ==
  CASE version = "single" -> CellsSingle(FieldsOf(line), HeaderIdx(HeaderOf(version))).parsedDate
    [] version = "proxy" -> CellsProxy(FieldsOf(line), HeaderIdx(HeaderOf(version))).parsedDate
    [] version = "regions" -> CellsRegions(FieldsOf(line), HeaderIdx(HeaderOf(version))).parsedDate

\* the line passes every row-level check: it is no blank and no total
\* line, its name is a name, its sale amount is positive and its date cell
\* is a calendar date
PassesRowChecks(line) ==
  /\ line # BlankLine
  /\ ~HasTotalMarker(line)
  /\ Len(RowName(line)) >= 2
  /\ RowSaleAmount(line) > 0
  /\ RowParsedDate(line).valid

\* C30: a line that fails a row-level check leaves the employee map as it
\* was, and a record is created only in an iteration whose line passes
\* every check and that runs to its end, adding the line's amounts.
C30_OnlyAcceptedRowsCreate ==
  [][/\ ~PassesRowChecks(parseRun'.line)
          => parseRun'.employeeMap = parseRun.employeeMap
     /\ Len(parseRun'.employeeMap) > Len(parseRun.employeeMap)
          => PassesRowChecks(parseRun'.line) /\ ~parseRun'.threw]_vars

(***************************************************************************)
(* Headers on which findColumnIndex resolves all logical fields but one.   *)
(* In "single" the name has three sources (the region's column, the        *)
(* generic column, any region column); it is unresolved when there is      *)
(* none.  In "regions" the branch is the region name, not a column.        *)
(***************************************************************************)
LogicalFields(v) ==
  IF v = "regions" THEN {"name", "date", "contract", "invoice"}
  ELSE {"name", "branch", "date", "contract", "invoice"}

\* the resolution of the header of revision v with field f not found
Without(v, f) ==
  LET idx == HeaderIdx(HeaderOf(v))
  IN  CASE f = "name" -> [idx EXCEPT !.nameIdx = -1, !.employeeNameIndices = <<>>]
        [] f = "branch" -> [idx EXCEPT !.branchIdx = -1]
        [] f = "date" -> [idx EXCEPT !.dateIdx = -1]
        [] f = "contract" -> [idx EXCEPT !.contractIdx = -1]
        [] f = "invoice" -> IF v = "proxy" THEN [idx EXCEPT !.invoice3000Idx = -1]
                            ELSE [idx EXCEPT !.invoiceIdx = -1]

\* parseSheetData has read a header lacking one logical field
InitUnresolved ==
  /\ version \in Versions
  /\ tz = 0
  /\ NoCalls
  /\ \E f \in LogicalFields(version) :
       parseRun = [NoParseRun EXCEPT
                     !.idx = Without(version, f),
                     !.regionName = IF version = "regions" THEN REGION_SHEETS[1] ELSE <<>>]
  /\ csvRun = NoCsvRun
  /\ fnCall = NoFnCall
  /\ view = NoView

SpecUnresolved == InitUnresolved /\ [][NextAggregate]_vars

\* the column of a metric on the full header of the revision
MetricColumn(f) ==
  LET idx == HeaderIdx(HeaderOf(version))
  IN  IF f = "contract" THEN idx.contractIdx
      ELSE IF version = "proxy" THEN idx.invoice3000Idx ELSE idx.invoiceIdx

\* the line with the cell of column i (0-based) holding "0"
ZeroedAt(line, i) ==
  IF line.t = "row" /\ i < Len(line.fields)
    THEN [line EXCEPT !.fields[i + 1] = Zero] ELSE line

\* C24: an unresolved name, branch or date field makes every row be skipped
\* (no record appears, under a placeholder or otherwise), and an unresolved
\* metric column counts as 0 in every row: the row is read as it would be
\* with the column present and holding 0.
C24_UnresolvedFieldSkipsRows ==
  [][parseRun'.rows = parseRun.rows + 1 =>
       \A f \in LogicalFields(version) :
         parseRun.idx = Without(version, f) =>
           IF f \in {"name", "branch", "date"}
             THEN parseRun'.employeeMap = parseRun.employeeMap
             ELSE parseRun'.employeeMap =
                    RowStep(version, ZeroedAt(parseRun'.line, MetricColumn(f)),
                            HeaderIdx(HeaderOf(version)), WindowStarts(clock, tz),
                            parseRun.employeeMap, parseRun.regionName).map]_vars

(***************************************************************************)
(* findColumnIndex, the same function in the three revisions.              *)
(***************************************************************************)
\* headers.findIndex((h) => h.toLowerCase().includes(term.toLowerCase()))
RECURSIVE FindIndexFrom(_, _, _)
FindIndexFrom(headers, term, i) ==
  IF i >= Len(headers) THEN -1
  ELSE IF Includes(ToLowerCase(headers[i + 1]), ToLowerCase(term)) THEN i
  ELSE FindIndexFrom(headers, term, i + 1)

\* the least member of a set of integers
MinOf(S) == CHOOSE x \in S : \A y \in S : x <= y

\* the first cell that holds any of the terms, whatever the term's rank
findColumnIndexFirstCell(headers, searchTerms) ==
  IF \A k \in 1..Len(searchTerms) : FindIndexFrom(headers, searchTerms[k], 0) = -1
    THEN -1
    ELSE MinOf({FindIndexFrom(headers, searchTerms[k], 0) : k \in 1..Len(searchTerms)}
               \ {-1})

\* for (const term of searchTerms) { idx = findIndex; if (idx !== -1) return idx }
\* return -1
RECURSIVE findColumnIndex(_, _)
findColumnIndex(headers, searchTerms) ==
  IF searchTerms = <<>> THEN -1
  ELSE Once(FindIndexFrom(headers, Head(searchTerms), 0), LAMBDA idx :
         IF idx # -1 THEN idx ELSE findColumnIndex(headers, Tail(searchTerms)))

MaxHeaderCells == 2   \* a header row has at most this many cells
MaxTerms == 2         \* a candidate list has at most this many terms

\* header cells and candidates: empty, one letter in either case, two letters
HeaderCells == {<<>>, <<"a">>, <<"A">>, <<"b">>, <<"a", "b">>, <<"A", "b">>, <<"b", "a">>}
Terms == {<<>>, <<"a">>, <<"b">>, <<"B">>, <<"a", "b">>, <<"c">>}
HeaderRows == UNION {[1..n -> HeaderCells] : n \in 1..MaxHeaderCells}
TermLists == UNION {[1..n -> Terms] : n \in 0..MaxTerms}

InitColumns ==
  /\ version = "single"
  /\ tz = 0
  /\ NoCalls
  /\ parseRun = NoParseRun
  /\ csvRun = NoCsvRun
  /\ fnCall = NoFnCall
  /\ view = NoView

CallFindColumnIndex ==
  /\ fnCall = NoFnCall
  /\ \E headers \in HeaderRows, searchTerms \in TermLists :
       fnCall' = [fn |-> "findColumnIndex", arg |-> <<headers, searchTerms>>,
                  date |-> NoDate, int |-> findColumnIndex(headers, searchTerms)]
  /\ UNCHANGED <<fetchVars, parseRun, csvRun, view>>

NextColumns == CallFindColumnIndex
SpecColumns == InitColumns /\ [][NextColumns]_vars

\* the positions (0-based) of the header cells that contain the term as a
\* case-insensitive substring
CellsContaining(headers, term) ==
  {i \in 0..(Len(headers) - 1) : Includes(ToLowerCase(headers[i + 1]), ToLowerCase(term))}

\* C21: findColumnIndex returns -1 exactly when no header cell contains any
\* candidate as a case-insensitive substring; otherwise it returns the first
\* cell containing the highest-priority candidate that any cell contains;
\* what it returns is -1 or a position of the header row.
C21_FirstCellOfBestCandidate ==
  fnCall.fn = "findColumnIndex" =>
    LET headers == fnCall.arg[1]
        searchTerms == fnCall.arg[2]
        matching == {k \in 1..Len(searchTerms) :
                       CellsContaining(headers, searchTerms[k]) # {}}
    IN  /\ fnCall.int = -1 <=> matching = {}
        /\ matching # {} =>
             fnCall.int = MinOf(CellsContaining(headers, searchTerms[MinOf(matching)]))
        /\ fnCall.int \in -1..(Len(headers) - 1)

\* a higher-priority candidate found in a later column, in another case,
\* wins over a lower-priority candidate found in an earlier column
C21_Witness ==
  /\ fnCall.fn = "findColumnIndex"
  /\ fnCall.arg = << << <<"a">>, <<"A", "b">> >>, << <<"B">>, <<"a">> >> >>
  /\ fnCall.int = 1

(***************************************************************************)
(* The header line is not read by parseCSVLine: the three revisions take   *)
(* `lines[k].split(",").map((h) => h.trim())` as the header cells and      *)
(* resolve the columns on them; the data rows are read by parseCSVLine.    *)
(***************************************************************************)
\* line.split(","): cells is the list so far, current the cell being read
RECURSIVE SplitFrom(_, _, _)
SplitFrom(line, cells, current) ==
  IF line = <<>> THEN Append(cells, current)
  ELSE IF Head(line) = "," THEN SplitFrom(Tail(line), Append(cells, current), <<>>)
  ELSE SplitFrom(Tail(line), cells, current \o <<Head(line)>>)

\* lines[k].split(",").map((h) => h.trim())
HeadersOf(line) ==
  Once(SplitFrom(line, <<>>, <<>>), LAMBDA cells : [i \in 1..Len(cells) |-> Trim(cells[i])])

\* C29: the header cells the resolver sees and the fields parseCSVLine
\* yields are the same columns: on any line, one with quoted cells that
\* hold a comma included, the two have the same number of cells, so that
\* cell i and field i are the same column; on a line without quotes they
\* are the same cells.
C29_HeaderCellsAreFields ==
  csvRun.returned =>
    LET headers == HeadersOf(csvRun.line)
    IN  /\ Len(headers) = Len(csvRun.fields)
        /\ (\A i \in 1..Len(csvRun.line) : csvRun.line[i] # "\"") =>
             headers = csvRun.fields

====
